---- MODULE Spec2Model ----
(***************************************************************************)
(* RoadSense: the priority aggregator (priorisation-service) and the       *)
(* georeferencing engine (georef-service), modelled from their sources.    *)
(*                                                                         *)
(* Numbers.  Python floats are modelled as integers in hundredths          *)
(* ("centi": 54.5 is 5450); confidences in tenths (0.9 is 9); distances    *)
(* and coordinates are whole metres / whole units.  The inputs the model   *)
(* draws are chosen so that every quotient the code forms is exact in      *)
(* hundredths.                                                             *)
(* SQL NULL / Python None: in the priorisation service NULL (0) for ids    *)
(* and "NULL" for text; in the georef service a nullable column holds      *)
(* None (<<>>) or Some(v) (<<v>>).  A uuid4 primary key is modelled as the *)
(* row's insertion ordinal.                                                *)
(***************************************************************************)
EXTENDS Integers, Sequences, FiniteSets, TLC

\* ------------------------------------------------------------------ bounds
\* concurrent request handlers of the priorisation service
NumProcs == 2
\* compute_segment_priority calls started in one behaviour
MaxCalls == 3

NULL == 0
NoText == "NULL"

Procs == 1..NumProcs
SegmentIds == {1, 2}

\* ------------------------------------------------------------ configuration
\* app/core/config.py of priorisation-service (weights in hundredths)
WEIGHT_SEVERITY == 35
WEIGHT_TRAFFIC == 25
WEIGHT_DENSITY == 20
WEIGHT_AGE == 15
WEIGHT_ACCESSIBILITY == 5
\* thresholds and scores in hundredths of a point
MIN_PRIORITY_SCORE == 0
HIGH_PRIORITY_THRESHOLD == 7000
CRITICAL_PRIORITY_THRESHOLD == 8500
MEDIUM_PRIORITY_THRESHOLD == 5000

VARIABLES
    settings,   \* settings = Settings(): the fields the environment may override
    service,    \* the application: starting, ready or failed
    probe       \* the last direct call of a scoring function: arguments, value

config_vars == <<settings, service, probe>>

\* a Settings object: the five weights, the two configured thresholds
Settings(ws, wt, wd, wa, wx, high, critical) ==
    [WEIGHT_SEVERITY |-> ws, WEIGHT_TRAFFIC |-> wt, WEIGHT_DENSITY |-> wd,
     WEIGHT_AGE |-> wa, WEIGHT_ACCESSIBILITY |-> wx,
     MIN_PRIORITY_SCORE |-> MIN_PRIORITY_SCORE,
     HIGH_PRIORITY_THRESHOLD |-> high, CRITICAL_PRIORITY_THRESHOLD |-> critical]

\* the class defaults
DefaultSettings ==
    Settings(WEIGHT_SEVERITY, WEIGHT_TRAFFIC, WEIGHT_DENSITY, WEIGHT_AGE,
             WEIGHT_ACCESSIBILITY, HIGH_PRIORITY_THRESHOLD, CRITICAL_PRIORITY_THRESHOLD)

\* what Settings() may load from the environment or .env: the defaults, other
\* weights and thresholds, weights that do not sum to 1.0, a HIGH threshold
\* under 50, thresholds in the wrong order or equal
Environments ==
    { DefaultSettings,
      Settings(50, 20, 10, 10, 10, 6000, 9000),
      Settings(35, 25, 20, 15, 15, HIGH_PRIORITY_THRESHOLD, CRITICAL_PRIORITY_THRESHOLD),
      Settings(30, 20, 20, 15, 5, HIGH_PRIORITY_THRESHOLD, CRITICAL_PRIORITY_THRESHOLD),
      Settings(35, 25, 20, 15, 5, 4000, CRITICAL_PRIORITY_THRESHOLD),
      Settings(35, 25, 20, 15, 5, CRITICAL_PRIORITY_THRESHOLD, HIGH_PRIORITY_THRESHOLD),
      Settings(35, 25, 20, 15, 5, HIGH_PRIORITY_THRESHOLD, HIGH_PRIORITY_THRESHOLD) }

\* ------------------------------------------------------------------ helpers
Min(a, b) == IF a <= b THEN a ELSE b
Max(a, b) == IF a >= b THEN a ELSE b

RECURSIVE SumSeq(_)
SumSeq(s) == IF s = <<>> THEN 0 ELSE Head(s) + SumSeq(Tail(s))

RECURSIVE MaxSeq(_)
MaxSeq(s) == IF Len(s) = 1 THEN Head(s) ELSE Max(Head(s), MaxSeq(Tail(s)))

\* Python round(x, 2) of the exact quotient n / d (d > 0, n >= 0), in hundredths:
\* nearest, ties to even
RoundDiv(n, d) ==
    LET q == n \div d
        r == n % d
    IN  IF 2 * r < d THEN q
        ELSE IF 2 * r > d THEN q + 1
        ELSE IF q % 2 = 0 THEN q ELSE q + 1

\* --------------------------------------------------------- priority scoring
\* variant: the weighted sum is rounded but not clamped
calculate_priority_scoreUnclamped(severity_score, traffic_score, density_score, age_score, accessibility_score) ==
    RoundDiv(settings.WEIGHT_SEVERITY * severity_score
             + settings.WEIGHT_TRAFFIC * traffic_score
             + settings.WEIGHT_DENSITY * density_score
             + settings.WEIGHT_AGE * age_score
             + settings.WEIGHT_ACCESSIBILITY * accessibility_score, 100)

\* calculate_priority_score: the five components in hundredths, the result in
\* hundredths, clamped and rounded to two decimals
calculate_priority_score(severity_score, traffic_score, density_score, age_score, accessibility_score) ==
    LET score100 == settings.WEIGHT_SEVERITY * severity_score
                    + settings.WEIGHT_TRAFFIC * traffic_score
                    + settings.WEIGHT_DENSITY * density_score
                    + settings.WEIGHT_AGE * age_score
                    + settings.WEIGHT_ACCESSIBILITY * accessibility_score
    IN  RoundDiv(Max(settings.MIN_PRIORITY_SCORE * 100, Min(10000 * 100, score100)), 100)

\* variant: a boundary score falls to the lower level
get_priority_levelExclusive(priority_score) ==
    IF priority_score > settings.CRITICAL_PRIORITY_THRESHOLD THEN "CRITICAL"
    ELSE IF priority_score > settings.HIGH_PRIORITY_THRESHOLD THEN "HIGH"
    ELSE IF priority_score > MEDIUM_PRIORITY_THRESHOLD THEN "MEDIUM"
    ELSE "LOW"

\* get_priority_level: the cascade of lines 81-95
get_priority_level(priority_score) ==
    IF priority_score >= settings.CRITICAL_PRIORITY_THRESHOLD THEN "CRITICAL"
    ELSE IF priority_score >= settings.HIGH_PRIORITY_THRESHOLD THEN "HIGH"
    ELSE IF priority_score >= MEDIUM_PRIORITY_THRESHOLD THEN "MEDIUM"
    ELSE "LOW"

\* road_multipliers.get(road_type, 1.0) of estimate_cost, in tenths
CostMultiplier(road_type) ==
    CASE road_type = "motorway" -> 25
      [] road_type = "trunk" -> 20
      [] road_type = "primary" -> 18
      [] road_type = "secondary" -> 15
      [] road_type = "tertiary" -> 12
      [] road_type = "residential" -> 10
      [] road_type = "unclassified" -> 8
      [] OTHER -> 10

\* variant: the severity multiplier is avg / 10, without the 1.0
estimate_costBareSeverity(defect_count, avg_severity, road_type) ==
    RoundDiv(500 * defect_count * avg_severity * CostMultiplier(road_type), 100)

\* estimate_cost: avg_severity in hundredths, the cost in hundredths
\* 500 * n * (1 + avg/10) * mult, rounded to two decimals
estimate_cost(defect_count, avg_severity, road_type) ==
    RoundDiv(500 * defect_count * (1000 + avg_severity) * CostMultiplier(road_type), 100)

\* road_multipliers.get(road_type, 1.0) of estimate_duration, in tenths
DurationMultiplier(road_type) ==
    CASE road_type = "motorway" -> 20
      [] road_type = "trunk" -> 18
      [] road_type = "primary" -> 15
      [] road_type = "secondary" -> 12
      [] road_type = "tertiary" -> 10
      [] road_type = "residential" -> 8
      [] road_type = "unclassified" -> 8
      [] OTHER -> 10

\* variant: the day count is not raised to one
estimate_durationNoFloor(defect_count, road_type) ==
    (4 * defect_count * DurationMultiplier(road_type)) \div 80

\* estimate_duration: max(1, int(4 * n * mult / 8))
estimate_duration(defect_count, road_type) ==
    Max(1, (4 * defect_count * DurationMultiplier(road_type)) \div 80)

\* traffic_importance.get(road_type, 50), in hundredths
TrafficImportance(road_type) ==
    CASE road_type = "motorway" -> 10000
      [] road_type = "trunk" -> 9000
      [] road_type = "primary" -> 8000
      [] road_type = "secondary" -> 6000
      [] road_type = "tertiary" -> 4000
      [] road_type = "residential" -> 3000
      [] road_type = "unclassified" -> 2000
      [] OTHER -> 5000

\* ------------------------------------------------------------------- inputs
\* a DefectInput after the route's defect.dict(): every key present
\* (severity_score and age_days whole, segment_length_meters whole metres)
Defect(sev, age, name, type, len) ==
    [severity_score |-> sev, age_days |-> age, road_name |-> name,
     road_type |-> type, segment_length_meters |-> len]

ScenarioD ==
    << Defect(8, 0, "Main St", "residential", 200),
       Defect(6, 0, "Main St", "residential", 200),
       Defect(7, 0, "Main St", "residential", 200) >>

\* the defect lists a caller may send; <<>> is the empty list
DefectLists ==
    { <<>>,
      ScenarioD,
      << Defect(10, 365, "Ring Rd", "motorway", 1000) >>,
      << Defect(10, 365, NoText, "residential", 1000) >>,
      << Defect(4, 730, NoText, "footway", 50), Defect(6, 0, NoText, "footway", 50) >>,
      << Defect(2, 730, "Ring Rd", "trunk", 2000) >> }

\* the columns compute_segment_priority derives from the defect list
\* (lines 207-298), as the keyword arguments of the insert branch carry them
PriorityValues(defects) ==
    LET defect_count == Len(defects)
        severities == [i \in 1..defect_count |-> defects[i].severity_score]
        avg_severity == (SumSeq(severities) * 100) \div defect_count
        max_severity == MaxSeq(severities) * 100
        severity_score == avg_severity * 10
        road_type == defects[1].road_type
        traffic_score == TrafficImportance(road_type)
        \* defect_count / max(length_km, 0.1) * 20, capped at 100
        density_score ==
            Min(10000, (defect_count * 2000000) \div Max(defects[1].segment_length_meters, 100))
        ages == [i \in 1..defect_count |-> defects[i].age_days]
        age_score == Min(10000, (SumSeq(ages) * 10000) \div (defect_count * 365))
        accessibility_score == 5000
        total_priority == calculate_priority_score(severity_score, traffic_score,
                              density_score, age_score, accessibility_score)
    IN  [severity_score |-> severity_score,
         traffic_score |-> traffic_score,
         density_score |-> density_score,
         age_score |-> age_score,
         accessibility_score |-> accessibility_score,
         total_priority_score |-> total_priority,
         priority_level |-> get_priority_level(total_priority),
         defect_count |-> defect_count,
         avg_severity |-> avg_severity,
         max_severity |-> max_severity,
         road_name |-> defects[1].road_name,
         road_type |-> road_type,
         estimated_cost |-> estimate_cost(defect_count, avg_severity, road_type),
         estimated_duration_days |-> estimate_duration(defect_count, road_type)]


\* ------------------------------------------------------------------- state
VARIABLES
    priority_scores,  \* table priority_scores: the rows in insertion order
    now,              \* datetime.utcnow(), a logical clock
    pc,               \* per handler: where compute_segment_priority stands
    call,             \* per handler: segment_id, defects and the row it loaded
    outcome,          \* per handler: how its last call ended
    result,           \* per handler: the row its last call returned (<<>>: none)
    calls_started,    \* calls started so far
    first_id,         \* history: per segment, the id of the row first inserted
    last_input,       \* history: per segment, the defect list committed last
    committed,        \* history: the computations committed, per segment
    raced,            \* history: segments on which a commit overtook a check
    done_log,         \* history: the last two calls that returned or raised
    stats_pc,         \* GET /stats: idle, the query to run next, or done
    stats             \* GET /stats: what its queries have returned so far

VARIABLES
    road_segments,          \* table road_segments: id -> x of its geometry
    distance_threshold,     \* settings.DEFAULT_DISTANCE_THRESHOLD
    georeferenced_defects,  \* table georeferenced_defects, in insertion order
    geo_last,               \* the last POST / call: its status and effects
                            \* (the latest response is kept: a query clears it)
    batch_pc,               \* POST /batch: idle, running, done, failed, rejected
    batch_items,            \* POST /batch: request.defects
    batch_results,          \* POST /batch: results gathered by the loop
    query_result            \* the last POST /nearby or GET /segment/{id}: its answer
                            \* (the latest response is kept: a POST / clears it)

VARIABLES
    video,          \* table videos: the committed row of the uploaded video
    frames,         \* table frames: the committed rows, in insertion order
    run,            \* process_video: its position, its session's Video object,
                    \* the stages it has finished
    detection_run,  \* the last detect_frames run: what storage and the
                    \* detection service answered, the frames it selected
    direct          \* a direct call of a function of the ingestion service:
                    \* the function, its arguments, its value once it has run

ingest_vars == <<video, frames, run, detection_run, direct>>

geo_vars == <<road_segments, distance_threshold, georeferenced_defects, geo_last,
              batch_pc, batch_items, batch_results, query_result>>

vars == <<settings, service, probe, priority_scores, now, pc, call, outcome, result, calls_started,
          first_id, last_input, committed, raced, done_log, stats_pc, stats,
          road_segments, distance_threshold, georeferenced_defects, geo_last,
          batch_pc, batch_items, batch_results, query_result,
          video, frames, run, detection_run, direct>>

\* the state of the priorisation service but its clock
prio_state == <<priority_scores, pc, call, outcome, result, calls_started,
                first_id, last_input, committed, raced, done_log>>

\* what the handlers of the priorisation service leave alone
prio_frame == <<geo_vars, stats_pc, stats, config_vars, ingest_vars>>

\* what the handlers of the georef service leave alone
geo_frame == <<prio_state, stats_pc, stats, config_vars, ingest_vars>>

\* the columns the update branch assigns (lines 313-335)
UpdatedColumns ==
    {"severity_score", "traffic_score", "density_score", "age_score",
     "accessibility_score", "total_priority_score", "priority_level",
     "defect_count", "avg_severity", "max_severity", "estimated_cost",
     "estimated_duration_days"}

\* the keyword arguments of the insert branch besides segment_id (lines 348-376)
InsertedColumns == UpdatedColumns \cup {"road_name", "road_type"}

\* variant: the check compares the wrong column
RowsOfSegmentById(table, segment_id) ==
    {i \in 1..Len(table) : table[i].id = segment_id}

\* select(PriorityScore).where(PriorityScore.segment_id == segment_id)
RowsOfSegment(table, segment_id) ==
    {i \in 1..Len(table) : table[i].segment_id = segment_id}

\* PriorityScore(...) then db.add: id, created_at, updated_at and calculated_at
\* take their column defaults at the insert
NewPriorityScore(id, segment_id, values, t) ==
    [c \in InsertedColumns \cup {"id", "segment_id", "created_at", "updated_at", "calculated_at"} |->
        CASE c = "id" -> id
          [] c = "segment_id" -> segment_id
          [] c \in {"created_at", "updated_at", "calculated_at"} -> t
          [] OTHER -> values[c]]

\* the update branch at commit: the unit of work writes the assigned columns
\* whose value differs from the one it loaded, by primary key, on the row as
\* it is now; updated_at and calculated_at are assigned utcnow()
UpdatedPriorityScore(current, loaded, values, t) ==
    [c \in DOMAIN current |->
        IF c \in UpdatedColumns /\ values[c] # loaded[c] THEN values[c]
        ELSE IF c \in {"updated_at", "calculated_at"} THEN t
        ELSE current[c]]

\* variant: every commit inserts
UpsertTableInsertOnly(table, existing, segment_id, values, t) ==
    Append(table, NewPriorityScore(Len(table) + 1, segment_id, values, t))

\* if existing: ... else: ... db.add; await db.commit()
\* existing is <<>> (None) or <<the row loaded>>
UpsertTable(table, existing, segment_id, values, t) ==
    IF existing # <<>>
    THEN [table EXCEPT ![existing[1].id] =
             UpdatedPriorityScore(table[existing[1].id], existing[1], values, t)]
    ELSE Append(table, NewPriorityScore(Len(table) + 1, segment_id, values, t))

\* the id of the row a commit wrote
WrittenId(table, existing) ==
    IF existing # <<>> THEN existing[1].id ELSE Len(table) + 1

NoCall == [segment_id |-> NULL, defects |-> <<>>, existing |-> <<>>]

\* the log after a call on (segment_id, defects) ended with outcome and
\* returned row (<<>>: it raised): the newest entry first, the last two kept
Logged(log, segment_id, defects, how, row) ==
    <<[segment_id |-> segment_id, defects |-> defects, outcome |-> how, result |-> row]>>
        \o (IF log = <<>> THEN <<>> ELSE <<log[1]>>)

\* the queries of get_statistics in the order it awaits them (lines 435-521)
StatsQueries ==
    <<"total_segments", "critical", "high", "medium", "low",
      "total_estimated_cost", "total_defects", "avg_priority_score">>

\* one query of get_statistics on the table as it is when the query runs;
\* a NULL aggregate (no row) reads 0
StatsQuery(q, table) ==
    LET rows == 1..Len(table)
        level(l) == Cardinality({i \in rows : table[i].priority_level = l})
    IN  CASE q = "total_segments" -> Len(table)
          [] q = "critical" -> level("CRITICAL")
          [] q = "high" -> level("HIGH")
          [] q = "medium" -> level("MEDIUM")
          [] q = "low" -> level("LOW")
          [] q = "total_estimated_cost" ->
                 SumSeq([i \in rows |-> table[i].estimated_cost])
          [] q = "total_defects" ->
                 SumSeq([i \in rows |-> table[i].defect_count])
          [] q = "avg_priority_score" ->
                 IF table = <<>> THEN 0
                 ELSE RoundDiv(SumSeq([i \in rows |-> table[i].total_priority_score]),
                               Len(table))

NoStats == [q \in {StatsQueries[i] : i \in 1..Len(StatsQueries)} |-> 0]

PrioInit ==
    /\ priority_scores = <<>>
    /\ now = 1
    /\ pc = [p \in Procs |-> "idle"]
    /\ call = [p \in Procs |-> NoCall]
    /\ outcome = [p \in Procs |-> "none"]
    /\ result = [p \in Procs |-> <<>>]
    /\ calls_started = 0
    /\ first_id = [s \in SegmentIds |-> NULL]
    /\ last_input = [s \in SegmentIds |-> <<>>]
    /\ committed = {}
    /\ raced = {}
    /\ done_log = <<>>
    /\ stats_pc = "idle"
    /\ stats = NoStats

\* variant: the list is not checked
NoDefectsUnchecked(defects) == FALSE

\* if not defects (line 203)
NoDefects(defects) == defects = <<>>

\* lines 203-307: the validation, the derivation (pure, kept in call) and the
\* existence check; scalar_one_or_none raises on more than one row
Select(p, segment_id, defects) ==
    /\ pc[p] = "idle"
    /\ calls_started < MaxCalls
    /\ calls_started' = calls_started + 1
    /\ result' = [result EXCEPT ![p] = <<>>]
    /\ IF NoDefects(defects)
       THEN /\ outcome' = [outcome EXCEPT ![p] = "ValueError"]
            /\ done_log' = Logged(done_log, segment_id, defects, "ValueError", <<>>)
            /\ UNCHANGED <<pc, call>>
       ELSE LET rows == RowsOfSegment(priority_scores, segment_id)
            IN  IF Cardinality(rows) > 1
                THEN /\ outcome' = [outcome EXCEPT ![p] = "MultipleResultsFound"]
                     /\ done_log' = Logged(done_log, segment_id, defects,
                                           "MultipleResultsFound", <<>>)
                     /\ UNCHANGED <<pc, call>>
                ELSE /\ pc' = [pc EXCEPT ![p] = "selected"]
                     /\ outcome' = [outcome EXCEPT ![p] = "none"]
                     /\ UNCHANGED done_log
                     /\ call' = [call EXCEPT ![p] =
                            [segment_id |-> segment_id,
                             defects |-> defects,
                             existing |-> IF rows = {} THEN <<>>
                                          ELSE <<priority_scores[CHOOSE i \in rows : TRUE]>>]]
    /\ UNCHANGED <<priority_scores, now, first_id, last_input, committed, raced>>
    /\ UNCHANGED prio_frame

\* lines 310-382: mutate-or-insert and commit
Commit(p) ==
    /\ pc[p] = "selected"
    /\ LET c == call[p]
           id == WrittenId(priority_scores, c.existing)
       IN  /\ priority_scores' = UpsertTable(priority_scores, c.existing, c.segment_id,
                                             PriorityValues(c.defects), now)
           /\ call' = [call EXCEPT ![p].existing = <<priority_scores'[id]>>]
           /\ first_id' = IF c.existing = <<>> /\ first_id[c.segment_id] = NULL
                          THEN [first_id EXCEPT ![c.segment_id] = id]
                          ELSE first_id
           /\ last_input' = [last_input EXCEPT ![c.segment_id] = c.defects]
           /\ committed' = committed \cup {[segment_id |-> c.segment_id, defects |-> c.defects]}
           /\ raced' = IF \E q \in Procs \ {p} :
                              pc[q] = "selected" /\ call[q].segment_id = c.segment_id
                       THEN raced \cup {c.segment_id}
                       ELSE raced
    /\ now' = now + 1
    /\ pc' = [pc EXCEPT ![p] = "committed"]
    /\ UNCHANGED <<outcome, result, calls_started, done_log>>
    /\ UNCHANGED prio_frame

\* lines 384-387: await db.refresh(priority_score); return it
Refresh(p) ==
    /\ pc[p] = "committed"
    /\ result' = [result EXCEPT ![p] = <<priority_scores[call[p].existing[1].id]>>]
    /\ outcome' = [outcome EXCEPT ![p] = "ok"]
    /\ pc' = [pc EXCEPT ![p] = "idle"]
    /\ call' = [call EXCEPT ![p] = NoCall]
    /\ done_log' = Logged(done_log, call[p].segment_id, call[p].defects, "ok", result'[p])
    /\ UNCHANGED <<priority_scores, now, calls_started, first_id, last_input, committed, raced>>
    /\ UNCHANGED prio_frame

\* GET /stats (routes lines 179-188): the handler starts
StatsStart ==
    /\ stats_pc = "idle"
    /\ stats_pc' = StatsQueries[1]
    /\ stats' = NoStats
    /\ UNCHANGED <<prio_state, now, geo_vars, config_vars, ingest_vars>>

\* get_statistics awaits its next query (lines 435-521): each execute reads
\* the rows committed by then; after the last one the dictionary is returned
StatsExecute ==
    /\ stats_pc \notin {"idle", "done"}
    /\ stats' = [stats EXCEPT ![stats_pc] = StatsQuery(stats_pc, priority_scores)]
    /\ LET k == CHOOSE i \in 1..Len(StatsQueries) : StatsQueries[i] = stats_pc
       IN  stats_pc' = IF k = Len(StatsQueries) THEN "done" ELSE StatsQueries[k + 1]
    /\ UNCHANGED <<prio_state, now, geo_vars, config_vars, ingest_vars>>

PrioConcNext ==
    \/ \E p \in Procs, s \in SegmentIds, d \in DefectLists : Select(p, s, d)
    \/ \E p \in Procs : Commit(p)
    \/ \E p \in Procs : Refresh(p)



\* calls executed one at a time: a call starts only when no other is under way
SeqSelect(p, segment_id, defects) ==
    /\ \A q \in Procs : pc[q] = "idle"
    /\ Select(p, segment_id, defects)

PrioSeqNext ==
    \/ \E p \in Procs, s \in SegmentIds, d \in DefectLists : SeqSelect(p, s, d)
    \/ \E p \in Procs : Commit(p)
    \/ \E p \in Procs : Refresh(p)



\* ============================================================ georef-service
\* Geometry.  ST_Transform(.., 3857) and ST_Distance are PostGIS: the model
\* works in the projected plane, one unit of longitude being one metre there,
\* and every road is a line string along a meridian (constant x) spanning the
\* modelled latitudes, so the planar distance of a point to it is |lon - x|
\* and the closest point keeps the point's latitude.

\* rows the georeferenced_defects table may hold in one behaviour
MaxGeoRows == 2
\* road segments the road network may hold
NumRoads == 2
\* items of one batch request
MaxBatch == 2

None == <<>>
Some(v) == <<v>>

RoadIds == 1..NumRoads
RoadXs == {0, 60}
\* georef-service app/core/config.py, metres
DEFAULT_DISTANCE_THRESHOLD == 50
\* settings.DEFAULT_DISTANCE_THRESHOLD as deployed: the default, or 80 from .env
Thresholds == {DEFAULT_DISTANCE_THRESHOLD, 80}

Point(lat, lon) == [latitude |-> lat, longitude |-> lon]

\* the GPS points callers send: on the band breakpoints, around the threshold,
\* on the ends of the valid ranges, and outside them
GeoPoints ==
    {Point(48, lon) : lon \in {3, 5, 15, 30, 31, 45, 50, 80}}
    \cup {Point(0 - 90, 0 - 180), Point(90, 180)}
    \cup {Point(0 - 91, 0), Point(91, 0), Point(48, 0 - 181), Point(48, 181)}

\* a GeoRefRequest (detection_id, latitude, longitude, defect_type,
\* severity_score, heading)
Request(det, pt) ==
    [detection_id |-> det, latitude |-> pt.latitude, longitude |-> pt.longitude,
     defect_type |-> "D00", severity_score |-> Some(7), heading |-> None]

Requests == {Request("det-1", pt) : pt \in GeoPoints}
\* the items batch requests are made of
BatchRequests ==
    {Request("det-2", pt) : pt \in {Point(48, 30), Point(90, 180), Point(91, 0)}}

\* variant: the lower bounds are not checked
ValidGeoRefRequestLoose(req) ==
    /\ req.latitude <= 90
    /\ req.longitude <= 180

\* GeoRefRequest: latitude Field(ge=-90, le=90), longitude Field(ge=-180, le=180)
ValidGeoRefRequest(req) ==
    /\ req.latitude >= 0 - 90 /\ req.latitude <= 90
    /\ req.longitude >= 0 - 180 /\ req.longitude <= 180

Abs(x) == IF x < 0 THEN 0 - x ELSE x

\* ST_Distance(ST_Transform(geometry, 3857), ST_Transform(point, 3857)), metres
ST_Distance(network, id, req) == Abs(req.longitude - network[id])

\* ST_ClosestPoint(geometry, point)
ST_ClosestPoint(network, id, req) == Point(req.latitude, network[id])

\* variant: a road exactly at the threshold is left out
WithinThresholdStrict(network, req, threshold) ==
    {id \in DOMAIN network : ST_Distance(network, id, req) < threshold}

\* where ST_DWithin(geometry, point, self.distance_threshold)
WithinThreshold(network, req, threshold) ==
    {id \in DOMAIN network : ST_Distance(network, id, req) <= threshold}

\* variant: no ordering by distance
NearestRoadsAny(network, req, threshold) ==
    WithinThreshold(network, req, threshold)

\* order_by(ST_Distance(...)).limit(1): the rows result.first() may return;
\* rows at equal distance are in no defined order
NearestRoads(network, req, threshold) ==
    LET within == WithinThreshold(network, req, threshold)
    IN  {id \in within :
            \A other \in within :
                ST_Distance(network, id, req) <= ST_Distance(network, other, req)}

\* variant: each breakpoint falls into the lower band
CalculateConfidenceStrict(distance) ==
    IF distance < 5 THEN 10
    ELSE IF distance < 15 THEN 9
    ELSE IF distance < 30 THEN 7
    ELSE IF distance < 50 THEN 5
    ELSE 3

\* _calculate_confidence, in tenths
_calculate_confidence(distance) ==
    IF distance <= 5 THEN 10
    ELSE IF distance <= 15 THEN 9
    ELSE IF distance <= 30 THEN 7
    ELSE IF distance <= 50 THEN 5
    ELSE 3

\* variant: a match exactly at 60% of the threshold is flagged
NeedsReviewInclusive(distance, threshold) == distance * 10 >= threshold * 6

\* needs_review=road.distance > self.distance_threshold * 0.6
NeedsReview(distance, threshold) == distance * 10 > threshold * 6

\* variant: the matched branch without matched_location
MatchedDefectNoPoint(id, req, road, distance, matched_point, threshold, t) ==
    [id |-> id,
     detection_id |-> req.detection_id,
     segment_id |-> Some(road),
     gps_location |-> Point(req.latitude, req.longitude),
     matched_location |-> None,
     distance_to_road |-> Some(distance),
     confidence |-> Some(_calculate_confidence(distance)),
     heading |-> req.heading,
     defect_type |-> req.defect_type,
     severity_score |-> req.severity_score,
     is_matched |-> TRUE,
     needs_review |-> NeedsReview(distance, threshold),
     created_at |-> t]

\* the GeoreferencedDefect of the matched branch (lines 88-100)
MatchedDefect(id, req, road, distance, matched_point, threshold, t) ==
    [id |-> id,
     detection_id |-> req.detection_id,
     segment_id |-> Some(road),
     gps_location |-> Point(req.latitude, req.longitude),
     matched_location |-> Some(matched_point),
     distance_to_road |-> Some(distance),
     confidence |-> Some(_calculate_confidence(distance)),
     heading |-> req.heading,
     defect_type |-> req.defect_type,
     severity_score |-> req.severity_score,
     is_matched |-> TRUE,
     needs_review |-> NeedsReview(distance, threshold),
     created_at |-> t]

\* the GeoreferencedDefect of the unmatched branch (lines 125-133); the
\* columns it does not name are NULL
UnmatchedDefect(id, req, t) ==
    [id |-> id,
     detection_id |-> req.detection_id,
     segment_id |-> None,
     gps_location |-> Point(req.latitude, req.longitude),
     matched_location |-> None,
     distance_to_road |-> None,
     confidence |-> None,
     heading |-> req.heading,
     defect_type |-> req.defect_type,
     severity_score |-> req.severity_score,
     is_matched |-> FALSE,
     needs_review |-> TRUE,
     created_at |-> t]

\* variant: a record with the same detection id is overwritten
georeference_defectUpsert(table, network, threshold, req, road, fail, t) ==
    LET same == {j \in 1..Len(table) : table[j].detection_id = req.detection_id}
        id == IF same = {} THEN Len(table) + 1 ELSE CHOOSE j \in same : TRUE
        row == IF road # None
               THEN MatchedDefect(id, req, road[1],
                                  ST_Distance(network, road[1], req),
                                  ST_ClosestPoint(network, road[1], req),
                                  threshold, t)
               ELSE UnmatchedDefect(id, req, t)
        written == IF same = {} THEN Append(table, row) ELSE [table EXCEPT ![id] = row]
    IN  IF fail \in {"query", "commit"}
        THEN [table |-> table, raised |-> TRUE, response |-> None]
        ELSE [table |-> written, raised |-> fail = "refresh",
              response |-> IF fail = "refresh" THEN None
                           ELSE Some([georef_id |-> id, matched |-> road # None,
                                      segment_id |-> road,
                                      needs_review |-> row.needs_review])]

\* where a store access of one call may fail
Failures == {"none", "query", "commit", "refresh"}

\* GeoRefService.georeference_defect (lines 52-151) on the table as it is:
\* road is None or Some(id of the row the query returned); fail names the
\* store access that raises, if any.  The except clause logs and re-raises.
georeference_defect(table, network, threshold, req, road, fail, t) ==
    LET id == Len(table) + 1
        row == IF road # None
               THEN MatchedDefect(id, req, road[1],
                                  ST_Distance(network, road[1], req),
                                  ST_ClosestPoint(network, road[1], req),
                                  threshold, t)
               ELSE UnmatchedDefect(id, req, t)
        response == [georef_id |-> id,
                     matched |-> road # None,
                     segment_id |-> road,
                     needs_review |-> row.needs_review]
    IN  IF fail = "query"
        THEN [table |-> table, raised |-> TRUE, response |-> None]
        ELSE IF fail = "commit"
        THEN [table |-> table, raised |-> TRUE, response |-> None]
        ELSE IF fail = "refresh"
        THEN [table |-> Append(table, row), raised |-> TRUE, response |-> None]
        ELSE [table |-> Append(table, row), raised |-> FALSE, response |-> Some(response)]

\* variant: the nearest road is taken however far it is
QueryResultsNearestOnly(network, req, threshold) ==
    IF DOMAIN network = {}
    THEN {None}
    ELSE {Some(id) : id \in {r \in DOMAIN network :
                                \A other \in DOMAIN network :
                                    ST_Distance(network, r, req)
                                        <= ST_Distance(network, other, req)}}

\* the rows result.first() may be: None when no road is within the threshold
QueryResults(network, req, threshold) ==
    IF NearestRoads(network, req, threshold) = {}
    THEN {None}
    ELSE {Some(id) : id \in NearestRoads(network, req, threshold)}

\* history of the last POST / call: whether its coordinates were out of range,
\* how it ended, whether the spatial query ran and whether a row was written
OutOfRange(req) ==
    \/ req.latitude < 0 - 90 \/ req.latitude > 90
    \/ req.longitude < 0 - 180 \/ req.longitude > 180

NoGeoCall == [out_of_range |-> FALSE, status |-> "none", queried |-> FALSE,
              persisted |-> FALSE, response |-> None]

\* no query answered yet
NoQuery == [op |-> "none", request |-> <<>>, status |-> "none", rows |-> <<>>]

GeoInit ==
    /\ road_segments \in UNION {[ids -> RoadXs] : ids \in SUBSET RoadIds}
    /\ distance_threshold \in Thresholds
    /\ georeferenced_defects = <<>>
    /\ geo_last = NoGeoCall
    /\ batch_pc = "idle"
    /\ batch_items = <<>>
    /\ batch_results = <<>>
    /\ query_result = NoQuery

\* the rows a running batch may still insert (room is kept for them)
BatchRowsToCome ==
    IF batch_pc = "running" THEN Len(batch_items) - Len(batch_results) ELSE 0

\* POST /api/v1/georef/ (routes lines 36-58): the request model validates,
\* then the service georeferences
GeoreferenceDefectRoute(req, fail) ==
    /\ Len(georeferenced_defects) + BatchRowsToCome < MaxGeoRows
    /\ IF ~ValidGeoRefRequest(req)
       THEN /\ geo_last' = [out_of_range |-> OutOfRange(req), status |-> "ValidationError",
                            queried |-> FALSE, persisted |-> FALSE, response |-> None]
            /\ UNCHANGED <<georeferenced_defects, now>>
       ELSE \E road \in QueryResults(road_segments, req, distance_threshold) :
                LET r == georeference_defect(georeferenced_defects, road_segments,
                                             distance_threshold, req, road, fail, now)
                IN  /\ georeferenced_defects' = r.table
                    /\ now' = IF r.table # georeferenced_defects THEN now + 1 ELSE now
                    /\ geo_last' = [out_of_range |-> OutOfRange(req),
                                    status |-> IF r.raised THEN "StoreError" ELSE "ok",
                                    queried |-> TRUE,
                                    persisted |-> r.table # georeferenced_defects,
                                    response |-> r.response]
    /\ query_result' = NoQuery
    /\ UNCHANGED <<road_segments, distance_threshold, batch_pc, batch_items, batch_results>>
    /\ UNCHANGED geo_frame

\* POST /api/v1/georef/batch (routes lines 61-74): BatchGeoRefRequest validates
\* every item before the handler runs
BatchStart(items) ==
    /\ batch_pc = "idle"
    /\ Len(georeferenced_defects) + Len(items) <= MaxGeoRows
    /\ batch_items' = items
    /\ batch_results' = <<>>
    /\ batch_pc' = IF \E i \in 1..Len(items) : ~ValidGeoRefRequest(items[i])
                   THEN "rejected"
                   ELSE IF items = <<>> THEN "done" ELSE "running"
    /\ UNCHANGED <<road_segments, distance_threshold, georeferenced_defects, geo_last,
                   query_result, now>>
    /\ UNCHANGED geo_frame

\* one turn of the loop of batch_georeference (lines 169-179): an exception
\* of georeference_defect leaves the loop and the handler; after the last
\* item the results are returned (routes lines 76-81)
BatchItem(fail) ==
    /\ batch_pc = "running"
    /\ LET req == batch_items[Len(batch_results) + 1]
       IN  \E road \in QueryResults(road_segments, req, distance_threshold) :
               LET r == georeference_defect(georeferenced_defects, road_segments,
                                            distance_threshold, req, road, fail, now)
               IN  /\ georeferenced_defects' = r.table
                   /\ now' = IF r.table # georeferenced_defects THEN now + 1 ELSE now
                   /\ IF r.raised
                      THEN /\ batch_pc' = "failed"
                           /\ UNCHANGED batch_results
                      ELSE /\ batch_results' = Append(batch_results, r.response[1])
                           /\ batch_pc' = IF Len(batch_results') = Len(batch_items)
                                          THEN "done" ELSE "running"
    /\ UNCHANGED <<road_segments, distance_threshold, geo_last, batch_items, query_result>>
    /\ UNCHANGED geo_frame

\* the response is sent; the next batch request may come
BatchReturn ==
    /\ batch_pc \in {"done", "failed", "rejected"}
    /\ batch_pc' = "idle"
    /\ batch_items' = <<>>
    /\ batch_results' = <<>>
    /\ UNCHANGED <<road_segments, distance_threshold, georeferenced_defects, geo_last,
                   query_result, now>>
    /\ UNCHANGED geo_frame

\* the largest r in lo..hi with r * r <= n
RECURSIVE ISqrt(_, _, _)
ISqrt(n, lo, hi) ==
    IF lo = hi THEN lo
    ELSE LET mid == (lo + hi + 1) \div 2
         IN  IF mid * mid <= n THEN ISqrt(n, mid, hi) ELSE ISqrt(n, lo, mid - 1)

\* the square of the planar distance between two points, square metres
SquareDistance(p, q) ==
    (p.latitude - q.latitude) * (p.latitude - q.latitude)
    + (p.longitude - q.longitude) * (p.longitude - q.longitude)

\* round(row.distance, 2), in hundredths of a metre (n stays under 2^31,
\* its root under 46341)
DistanceMeters(p, q) ==
    IF p.latitude = q.latitude THEN Abs(p.longitude - q.longitude) * 100
    ELSE IF p.longitude = q.longitude THEN Abs(p.latitude - q.latitude) * 100
    ELSE LET n == SquareDistance(p, q) * 10000
             r == ISqrt(n, 0, 46340)
         IN  IF n - r * r <= r THEN r ELSE r + 1

\* RoadSegment.name of the rows of road_segments: the first road is named
RoadName(id) == IF id = 1 THEN Some("Main St") ELSE None
\* RoadSegment.road_type of the rows of road_segments
RoadType(id) == IF id = 1 THEN Some("residential") ELSE None

\* NearbySearchRequest: latitude, longitude as in GeoRefRequest,
\* radius_meters Field(100.0, gt=0, le=5000)
ValidNearbySearchRequest(center, radius_meters) ==
    /\ center.latitude >= 0 - 90 /\ center.latitude <= 90
    /\ center.longitude >= 0 - 180 /\ center.longitude <= 180
    /\ radius_meters > 0 /\ radius_meters <= 5000

\* the dictionary get_nearby_defects builds of a row (lines 228-240); the
\* outer join gives the road's name, "Unknown" when there is none
NearbyEntry(network, d, center) ==
    [georef_id |-> d.id,
     detection_id |-> d.detection_id,
     defect_type |-> d.defect_type,
     severity_score |-> d.severity_score,
     location |-> d.gps_location,
     road_name |-> IF d.segment_id # None /\ d.segment_id[1] \in DOMAIN network
                      /\ RoadName(d.segment_id[1]) # None
                   THEN RoadName(d.segment_id[1])[1] ELSE "Unknown",
     road_type |-> IF d.segment_id # None /\ d.segment_id[1] \in DOMAIN network
                   THEN RoadType(d.segment_id[1]) ELSE None,
     distance_meters |-> DistanceMeters(d.gps_location, center),
     needs_review |-> d.needs_review]

\* (variant: the search runs on the snapped point of a matched record)
get_nearby_defectsSnapped(table, network, center, radius_meters) ==
    LET Location(d) == IF d.matched_location # None THEN d.matched_location[1]
                       ELSE d.gps_location
        within == {i \in 1..Len(table) :
                      SquareDistance(Location(table[i]), center)
                          <= radius_meters * radius_meters}
        orders == {o \in [1..Cardinality(within) -> within] :
                      /\ \A j, k \in DOMAIN o : j # k => o[j] # o[k]
                      /\ \A j, k \in DOMAIN o :
                             j < k => SquareDistance(Location(table[o[j]]), center)
                                      <= SquareDistance(Location(table[o[k]]), center)}
    IN  {[j \in DOMAIN o |-> NearbyEntry(network, table[o[j]], center)] : o \in orders}

\* GeoRefService.get_nearby_defects (lines 183-242): the lists the query may
\* return: the rows whose gps_location is within the radius (ST_DWithin),
\* ordered by distance, rows at equal distance in either order
get_nearby_defects(table, network, center, radius_meters) ==
    LET within == {i \in 1..Len(table) :
                      SquareDistance(table[i].gps_location, center)
                          <= radius_meters * radius_meters}
        orders == {o \in [1..Cardinality(within) -> within] :
                      /\ \A j, k \in DOMAIN o : j # k => o[j] # o[k]
                      /\ \A j, k \in DOMAIN o :
                             j < k => SquareDistance(table[o[j]].gps_location, center)
                                      <= SquareDistance(table[o[k]].gps_location, center)}
    IN  {[j \in DOMAIN o |-> NearbyEntry(network, table[o[j]], center)] : o \in orders}

\* the dictionary get_segment_defects builds of a row (lines 266-278)
SegmentEntry(d) ==
    [georef_id |-> d.id,
     detection_id |-> d.detection_id,
     defect_type |-> d.defect_type,
     severity_score |-> d.severity_score,
     location |-> d.gps_location,
     matched_location |-> d.matched_location,
     distance_to_road |-> d.distance_to_road,
     confidence |-> d.confidence,
     needs_review |-> d.needs_review,
     created_at |-> d.created_at]

\* GeoRefService.get_segment_defects (lines 244-280): the rows of the segment,
\* the newest first
RECURSIVE NewestFirst(_, _, _)
NewestFirst(table, segment_id, n) ==
    IF n = 0 THEN <<>>
    ELSE IF table[n].segment_id = Some(segment_id)
         THEN <<SegmentEntry(table[n])>> \o NewestFirst(table, segment_id, n - 1)
         ELSE NewestFirst(table, segment_id, n - 1)

get_segment_defects(table, segment_id) == NewestFirst(table, segment_id, Len(table))

\* POST /api/v1/georef/nearby (routes lines 84-111)
NearbyDefectsRoute(center, radius_meters) ==
    /\ IF ~ValidNearbySearchRequest(center, radius_meters)
       THEN query_result' = [op |-> "nearby", request |-> <<center, radius_meters>>,
                             status |-> "ValidationError", rows |-> <<>>]
       ELSE \E rows \in get_nearby_defects(georeferenced_defects, road_segments,
                                           center, radius_meters) :
                query_result' = [op |-> "nearby", request |-> <<center, radius_meters>>,
                                 status |-> "ok", rows |-> rows]
    /\ geo_last' = NoGeoCall
    /\ UNCHANGED <<road_segments, distance_threshold, georeferenced_defects,
                   batch_pc, batch_items, batch_results, now>>
    /\ UNCHANGED geo_frame

\* GET /api/v1/georef/segment/{segment_id} (routes lines 114-132)
SegmentDefectsRoute(segment_id) ==
    /\ query_result' = [op |-> "segment", request |-> <<segment_id>>, status |-> "ok",
                        rows |-> get_segment_defects(georeferenced_defects, segment_id)]
    /\ geo_last' = NoGeoCall
    /\ UNCHANGED <<road_segments, distance_threshold, georeferenced_defects,
                   batch_pc, batch_items, batch_results, now>>
    /\ UNCHANGED geo_frame

\* the searches callers send: centres on and off the stored points and out
\* of range, radii that reach one point, every point, and invalid ones
SearchRequests ==
    { <<Point(48, 30), 3>>, <<Point(48, 33), 3>>, <<Point(48, 33), 5000>>,
      <<Point(91, 0), 3>>, <<Point(48, 30), 0>> }

BatchInputs == UNION {[1..n -> BatchRequests] : n \in 0..MaxBatch}

\* --------------------------------------------------------- ingestion-video
\* frames in an uploaded file, at most
MaxFrames == 3

\* extraction rates asked for, at most
MaxRate == 5

\* settings.FRAME_EXTRACTION_FPS
FRAME_EXTRACTION_FPS == 2

\* detect_frames: frames sent to the detection client per batch
batch_size == 10

\* how a call ends
Returned(v) == [kind |-> "returned", value |-> v]

Raised(e) == [kind |-> "raised", error |-> e]

\* what the detection service answers to one POST /api/v1/detection/detect:
\* a DetectionResponse (its detections counted) under status 200, an error
\* status, or nothing within the client's timeout
Answer(status, detections) == [status |-> status, detections |-> detections]

Answers ==
    {Answer("200", n) : n \in 0..1} \cup {Answer(st, 0) : st \in {"400", "500", "timeout"}}

\* the body of a DetectionResponse (detection-fissures schemas.py)
DetectionResponse(detections) ==
    [image_id |-> "image", detections |-> detections, processing_time_ms |-> 45,
     model_version |-> "v1"]

\* DetectionClient.detect_defects: raise_for_status raises on an error
\* status, the post raises on a timeout, both handlers log and re-raise;
\* a 200 answer's JSON is returned as it came
detect_defects(answer) ==
    IF answer.status = "200" THEN Returned(DetectionResponse(answer.detections))
    ELSE IF answer.status = "timeout" THEN Raised("ReadTimeout")
    ELSE Raised("HTTPStatusError " \o answer.status)

\* (variant: the loop leaves at the first frame whose detection raised)
detect_frame_batchStopAtFailure(frames_data, answers) ==
    LET Failed(k) == detect_defects(answers[k]).kind = "raised"
        last == IF \E k \in 1..Len(frames_data) : Failed(k)
                THEN CHOOSE k \in 1..Len(frames_data) :
                         Failed(k) /\ \A j \in 1..(k - 1) : ~Failed(j)
                ELSE Len(frames_data)
    IN  [k \in 1..last |->
            LET r == detect_defects(answers[k])
            IN  IF r.kind = "returned"
                THEN [frame_id |-> frames_data[k], success |-> TRUE,
                      detections |-> r.value.detections,
                      detections_count |-> r.value.detections]
                ELSE [frame_id |-> frames_data[k], success |-> FALSE, error |-> r.error]]

\* DetectionClient.detect_frame_batch(frames): frames_data are the frame ids
\* (the image bytes play no part), answers[k] is what the service answers
\* to the k-th call
detect_frame_batch(frames_data, answers) ==
    [k \in 1..Len(frames_data) |->
        LET r == detect_defects(answers[k])
        IN  IF r.kind = "returned"
            THEN [frame_id |-> frames_data[k], success |-> TRUE,
                  detections |-> r.value.detections,
                  detections_count |-> r.value.detections]
            ELSE [frame_id |-> frames_data[k], success |-> FALSE, error |-> r.error]]

\* an uploaded file as OpenCV reads it: its frames and its frame rate
VideoRates == {1, 2, 4}

Files == {[total_frames |-> n, video_fps |-> v] : n \in 0..MaxFrames, v \in VideoRates}

\* VideoProcessor.extract_frames(video_path, fps): fps 0 stands for no rate
\* given (fps or settings.FRAME_EXTRACTION_FPS); opened: cap.isOpened();
\* stored: storage takes the uploads. The JPEG encoder succeeds. The value
\* is the list of frame_info, source_frame being the frame_count it was
\* read at.
extract_frames(file, fps, opened, stored) ==
    LET extraction_fps == IF fps = 0 THEN FRAME_EXTRACTION_FPS ELSE fps
        frame_interval == file.video_fps \div extraction_fps
        Picked(frame_count) == frame_count % frame_interval = 0
        picked == SelectSeq([k \in 1..file.total_frames |-> k - 1], Picked)
    IN  IF ~opened THEN Raised("ValueError")
        ELSE IF file.total_frames = 0 THEN Returned(<<>>)
        ELSE IF frame_interval = 0 THEN Raised("ZeroDivisionError")
        ELSE IF ~stored THEN Raised("S3Error")
        ELSE Returned([k \in 1..Len(picked) |->
                          [frame_number |-> k - 1, source_frame |-> picked[k]]])

\* a Frame row as extract_frames adds it
Frame(id, frame_info) ==
    [id |-> id, frame_number |-> frame_info.frame_number,
     detection_completed |-> FALSE, defects_count |-> 0]

\* what one frame meets in a detect_frames run: storage.get_object gives its
\* image or raises, and the detection service answers
FrameOutcome(download, answer) == [download |-> download, answer |-> answer]

FrameOutcomes ==
    {FrameOutcome(FALSE, Answer("200", 1))}
    \cup {FrameOutcome(TRUE, a) : a \in {Answer("200", 1), Answer("500", 0)}}

\* the rows detect_frames selects: detection_completed == False, by
\* frame_number, which is the order extract_frames inserted them in
PendingFrames(table) == SelectSeq(table, LAMBDA f : ~f.detection_completed)

\* (variant: every frame of the batch is marked, whatever its result)
detect_framesMarkAll(table, outcomes, commits) ==
    LET selected == PendingFrames(table)
        batches == (Len(selected) + batch_size - 1) \div batch_size
    IN  [table |-> [i \in 1..Len(table) |->
                       IF ~table[i].detection_completed /\ commits >= 1
                       THEN [table[i] EXCEPT !.detection_completed = TRUE]
                       ELSE table[i]],
         selected |-> [j \in 1..Len(selected) |-> selected[j].id],
         result |-> IF commits < batches THEN Raised("commit")
                    ELSE Returned(Len(selected))]

\* VideoProcessor.detect_frames: outcomes[id] is what frame id meets,
\* commits the per-batch commits that succeed before one raises. The
\* value: the table as committed, the ids selected, how the call ended
\* (frames_processed when it returned).
detect_frames(table, outcomes, commits) ==
    LET selected == PendingFrames(table)
        n == Len(selected)
        batches == (n + batch_size - 1) \div batch_size
        Batch(b) == [k \in 1..Min(batch_size, n - (b - 1) * batch_size) |->
                        selected[(b - 1) * batch_size + k].id]
        frames_data(b) == SelectSeq(Batch(b), LAMBDA id : outcomes[id].download)
        detection_results(b) ==
            detect_frame_batch(frames_data(b),
                               [k \in 1..Len(frames_data(b)) |->
                                   outcomes[frames_data(b)[k]].answer])
        Marks(b) == {r \in {detection_results(b)[k] : k \in 1..Len(detection_results(b))} :
                        r.success}
        Marked(id) == {r \in UNION {Marks(b) : b \in 1..Min(batches, commits)} :
                          r.frame_id = id}
    IN  [table |-> [i \in 1..Len(table) |->
                       IF Marked(table[i].id) # {}
                       THEN LET r == CHOOSE r \in Marked(table[i].id) : TRUE
                            IN  [table[i] EXCEPT !.detection_completed = TRUE,
                                                 !.defects_count = r.detections]
                       ELSE table[i]],
         selected |-> [j \in 1..n |-> selected[j].id],
         result |-> IF commits < batches THEN Raised("commit") ELSE Returned(n)]

\* outcomes for the frames of a table that a run selects
OutcomesOf(table) ==
    [{PendingFrames(table)[j].id : j \in 1..Len(PendingFrames(table))} -> FrameOutcomes]

\* the Video row upload_video commits (video_routes.py lines 56-66)
VideoIds == {1}

UploadedVideo ==
    [id |-> 1, status |-> "pending", fps |-> 0, frames_total |-> 0,
     frames_extracted |-> 0, error_message |-> NoText,
     processing_started_at |-> NoText, processing_completed_at |-> NoText]

NoRun == [pc |-> "idle", video_data |-> [total_frames |-> 0, video_fps |-> 4],
          object |-> UploadedVideo, extracted |-> 0, stages |-> <<>>]

NoDetectionRun == [outcomes |-> <<>>, selected |-> <<>>, result |-> <<>>]

NoDirect == [op |-> "none", args |-> <<>>, value |-> <<>>]

\* the ingestion service with one video uploaded and nothing called
IngestAtRest ==
    /\ video = UploadedVideo
    /\ frames = <<>>
    /\ run = NoRun
    /\ detection_run = NoDetectionRun
    /\ direct = NoDirect

\* the background task is to run on an uploaded file
IngestInit ==
    /\ video = UploadedVideo
    /\ frames = <<>>
    /\ run \in {[NoRun EXCEPT !.video_data = file] : file \in Files}
    /\ detection_run = NoDetectionRun
    /\ direct = NoDirect

\* process_video's except block (lines 444-452): status FAILED and the
\* message on the session's object, a commit that writes them unless it
\* raises too, and the exception raised again
Handled(object, error, db) ==
    /\ video' = IF db THEN [object EXCEPT !.status = "failed", !.error_message = error]
                ELSE video
    /\ run' = [run EXCEPT !.pc = "raised",
                          !.object = [object EXCEPT !.status = "failed",
                                                    !.error_message = error]]

\* process_video lines 369-379: load the video, set PROCESSING, commit;
\* an exception here is outside the try block
ProcessStart(video_id, db) ==
    /\ run.pc = "idle"
    /\ IF video_id # video.id
       THEN /\ run' = [run EXCEPT !.pc = "raised"]
            /\ UNCHANGED video
       ELSE LET object == [video EXCEPT !.status = "processing",
                                        !.processing_started_at = "utcnow"]
            IN  IF db
                THEN /\ video' = object
                     /\ run' = [run EXCEPT !.pc = "get_video_info", !.object = object]
                ELSE /\ UNCHANGED video
                     /\ run' = [run EXCEPT !.pc = "raised", !.object = object]
    /\ UNCHANGED <<frames, detection_run, direct>>
    /\ UNCHANGED <<prio_state, now, stats_pc, stats, config_vars, geo_vars>>

\* lines 383-399: the temporary file, get_video_info, the metadata, a commit
GetVideoInfo(probed, db, handler_db) ==
    /\ run.pc = "get_video_info"
    /\ LET file == run.video_data
           object == [run.object EXCEPT
                         !.fps = file.video_fps,
                         !.frames_total =
                             (file.total_frames * FRAME_EXTRACTION_FPS) \div file.video_fps]
       IN  IF ~probed THEN Handled(run.object, "ffmpeg.Error", handler_db)
           ELSE IF ~db THEN Handled(object, "commit", handler_db)
           ELSE /\ video' = object
                /\ run' = [run EXCEPT !.pc = "extract_frames", !.object = object,
                                      !.stages = Append(@, "get_video_info")]
    /\ UNCHANGED <<frames, detection_run, direct>>
    /\ UNCHANGED <<prio_state, now, stats_pc, stats, config_vars, geo_vars>>

\* lines 402-409: extract_frames at the configured rate, the Frame rows
\* committed
ExtractFrames(opened, stored, db, handler_db) ==
    /\ run.pc = "extract_frames"
    /\ LET r == extract_frames(run.video_data, 0, opened, stored)
       IN  IF r.kind = "raised"
           THEN Handled(run.object, r.error, handler_db) /\ UNCHANGED frames
           ELSE IF ~db
           THEN Handled(run.object, "commit", handler_db) /\ UNCHANGED frames
           ELSE /\ frames' = frames \o [k \in 1..Len(r.value) |->
                                           Frame(Len(frames) + k, r.value[k])]
                /\ run' = [run EXCEPT !.pc = "detect_frames",
                                      !.extracted = Len(r.value),
                                      !.stages = Append(@, "extract_frames")]
                /\ UNCHANGED video
    /\ UNCHANGED <<detection_run, direct>>
    /\ UNCHANGED <<prio_state, now, stats_pc, stats, config_vars, geo_vars>>

\* lines 414-417: detect_frames on the rows just committed
DetectFramesStage(outcomes, commits, handler_db) ==
    /\ run.pc = "detect_frames"
    /\ LET r == detect_frames(frames, outcomes, commits)
       IN  /\ frames' = r.table
           /\ detection_run' = [outcomes |-> outcomes, selected |-> r.selected,
                                result |-> r.result]
           /\ IF r.result.kind = "raised"
              THEN Handled(run.object, r.result.error, handler_db)
              ELSE /\ run' = [run EXCEPT !.pc = "create_annotated_video",
                                         !.stages = Append(@, "detect_frames")]
                   /\ UNCHANGED video
    /\ UNCHANGED direct
    /\ UNCHANGED <<prio_state, now, stats_pc, stats, config_vars, geo_vars>>

\* lines 422-425: create_annotated_video returns (None when there are no
\* frames) or raises
CreateAnnotatedVideo(annotated, handler_db) ==
    /\ run.pc = "create_annotated_video"
    /\ IF ~annotated THEN Handled(run.object, "ffmpeg.Error", handler_db)
       ELSE /\ run' = [run EXCEPT !.pc = "complete",
                                  !.stages = Append(@, "create_annotated_video")]
            /\ UNCHANGED video
    /\ UNCHANGED <<frames, detection_run, direct>>
    /\ UNCHANGED <<prio_state, now, stats_pc, stats, config_vars, geo_vars>>

\* lines 428-442: COMPLETED, the frame count and the time, a commit, the
\* return
ProcessComplete(db, handler_db) ==
    /\ run.pc = "complete"
    /\ LET object == [run.object EXCEPT !.status = "completed",
                                        !.frames_extracted = run.extracted,
                                        !.processing_completed_at = "utcnow"]
       IN  IF ~db THEN Handled(object, "commit", handler_db)
           ELSE /\ video' = object
                /\ run' = [run EXCEPT !.pc = "returned", !.object = object]
    /\ UNCHANGED <<frames, detection_run, direct>>
    /\ UNCHANGED <<prio_state, now, stats_pc, stats, config_vars, geo_vars>>

\* detect_frames called again on the video once its background task is over
DetectFrames(outcomes, commits) ==
    /\ run.pc \in {"returned", "raised"}
    /\ LET r == detect_frames(frames, outcomes, commits)
       IN  /\ frames' = r.table
           /\ detection_run' = [outcomes |-> outcomes, selected |-> r.selected,
                                result |-> r.result]
    /\ UNCHANGED <<video, run, direct>>
    /\ UNCHANGED <<prio_state, now, stats_pc, stats, config_vars, geo_vars>>

\* the direct calls to come: the function and its arguments, no value yet;
\* detect_frame_batch is called on frames 1..n, extract_frames on one file
\* at two rates, storage working
DirectCalls ==
    {[op |-> "detect_defects", args |-> <<answer>>, value |-> <<>>] : answer \in Answers}
    \cup
    {[op |-> "detect_frame_batch", args |-> <<[k \in 1..Len(answers) |-> k], answers>>,
      value |-> <<>>] :
        answers \in UNION {[1..n -> Answers] : n \in 0..MaxFrames}}
    \cup
    {[op |-> "extract_frames", args |-> <<file, rates[1], rates[2]>>, value |-> <<>>] :
        file \in Files, rates \in {r \in (1..MaxRate) \X (1..MaxRate) : r[1] <= r[2]}}

DetectDefects ==
    /\ direct.op = "detect_defects" /\ direct.value = <<>>
    /\ direct' = [direct EXCEPT !.value = <<detect_defects(direct.args[1])>>]
    /\ UNCHANGED <<video, frames, run, detection_run>>
    /\ UNCHANGED <<prio_state, now, stats_pc, stats, config_vars, geo_vars>>

DetectFrameBatch ==
    /\ direct.op = "detect_frame_batch" /\ direct.value = <<>>
    /\ direct' = [direct EXCEPT !.value =
                     <<detect_frame_batch(direct.args[1], direct.args[2])>>]
    /\ UNCHANGED <<video, frames, run, detection_run>>
    /\ UNCHANGED <<prio_state, now, stats_pc, stats, config_vars, geo_vars>>

ExtractFramesTwice ==
    /\ direct.op = "extract_frames" /\ direct.value = <<>>
    /\ direct' = [direct EXCEPT !.value =
                     <<extract_frames(direct.args[1], direct.args[2], TRUE, TRUE),
                       extract_frames(direct.args[1], direct.args[3], TRUE, TRUE)>>]
    /\ UNCHANGED <<video, frames, run, detection_run>>
    /\ UNCHANGED <<prio_state, now, stats_pc, stats, config_vars, geo_vars>>

\* the priorisation service started with the default settings
NoProbe == [op |-> "none", args |-> <<>>, value |-> <<>>]

Served ==
    /\ settings = DefaultSettings
    /\ service = "ready"
    /\ probe = NoProbe

\* the priorisation service at rest, for the behaviours of the georef service
Init == PrioInit /\ GeoInit /\ Served /\ IngestAtRest

\* the georeferencing engine under single requests
Next ==
    \E req \in Requests, fail \in Failures : GeoreferenceDefectRoute(req, fail)

Spec == Init /\ [][Next]_vars

\* the georeferencing engine under batch requests
GeoBatchNext ==
    \/ \E items \in BatchInputs : BatchStart(items)
    \/ \E fail \in Failures : BatchItem(fail)
    \/ BatchReturn

SpecGeoBatch == Init /\ [][GeoBatchNext]_vars

\* one deployment: the first road at 0, the others at 60, the default threshold
GeoOpsInit ==
    /\ PrioInit /\ Served /\ GeoInit /\ IngestAtRest
    /\ road_segments = [id \in RoadIds |-> IF id = 1 THEN 0 ELSE 60]
    /\ distance_threshold = DEFAULT_DISTANCE_THRESHOLD

\* batches of one valid request repeated
RepeatedBatches ==
    {[i \in 1..n |-> req] : n \in 0..MaxBatch,
                            req \in {r \in BatchRequests : ValidGeoRefRequest(r)}}

\* the georeferencing engine under all its requests
GeoOpsNext ==
    \/ \E req \in BatchRequests, fail \in Failures : GeoreferenceDefectRoute(req, fail)
    \/ \E items \in RepeatedBatches : BatchStart(items)
    \/ \E fail \in Failures : BatchItem(fail)
    \/ BatchReturn
    \/ \E search \in SearchRequests : NearbyDefectsRoute(search[1], search[2])
    \/ \E segment_id \in 1..(NumRoads + 1) : SegmentDefectsRoute(segment_id)

SpecGeoOps == GeoOpsInit /\ [][GeoOpsNext]_vars

\* the georef service at rest, for the behaviours of the priorisation service
GeoAtRest ==
    /\ road_segments = <<>>
    /\ distance_threshold = DEFAULT_DISTANCE_THRESHOLD
    /\ georeferenced_defects = <<>>
    /\ geo_last = NoGeoCall
    /\ batch_pc = "idle"
    /\ batch_items = <<>>
    /\ batch_results = <<>>
    /\ query_result = NoQuery

PrioSpecInit == PrioInit /\ GeoAtRest /\ Served /\ IngestAtRest

SpecPrioConc == PrioSpecInit /\ [][PrioConcNext]_vars

SpecPrioSeq == PrioSpecInit /\ [][PrioSeqNext]_vars

\* main.py lifespan (lines 30-47): the settings were loaded at import
\* (config.py line 58); startup connects to the database and, unless that
\* raises, the application serves
Lifespan(connected) ==
    /\ service = "starting"
    /\ service' = IF connected THEN "ready" ELSE "failed"
    /\ UNCHANGED <<settings, probe, prio_state, now, stats_pc, stats, geo_vars, ingest_vars>>

\* the scores get_priority_level is called with: around every boundary
ProbeScores ==
    {0, 10000} \cup UNION {{t - 1, t, t + 1} : t \in {4000, 5000, 6000, 7000, 8500, 9000}}

\* the component scores calculate_priority_score is called with
ComponentValues == {0, 1, 5000, 10000}

\* the direct calls to come: the function and its arguments, no value yet;
\* calculate_priority_score is called on five components a, and on the same
\* components but the i-th, which is v
ProbeCalls ==
    {[op |-> "get_priority_level", args |-> <<priority_score>>, value |-> <<>>] :
        priority_score \in ProbeScores}
    \cup
    {[op |-> "calculate_priority_score", args |-> <<a, [a EXCEPT ![iv[1]] = iv[2]]>>,
      value |-> <<>>] :
        a \in [1..5 -> ComponentValues], iv \in (1..5) \X ComponentValues}

\* PriorityService.get_priority_level(priority_score) under the settings loaded
LevelProbe ==
    /\ service = "ready"
    /\ probe.op = "get_priority_level" /\ probe.value = <<>>
    /\ probe' = [probe EXCEPT !.value = <<get_priority_level(probe.args[1])>>]
    /\ UNCHANGED <<settings, service, prio_state, now, stats_pc, stats, geo_vars,
                   ingest_vars>>

\* PriorityService.calculate_priority_score under the settings loaded, on
\* each of the two component vectors
ScoreProbe ==
    /\ service = "ready"
    /\ probe.op = "calculate_priority_score" /\ probe.value = <<>>
    /\ LET a == probe.args[1]
           b == probe.args[2]
       IN  probe' = [probe EXCEPT !.value =
                        <<calculate_priority_score(a[1], a[2], a[3], a[4], a[5]),
                          calculate_priority_score(b[1], b[2], b[3], b[4], b[5])>>]
    /\ UNCHANGED <<settings, service, prio_state, now, stats_pc, stats, geo_vars,
                   ingest_vars>>

ScoringInit ==
    /\ PrioInit /\ GeoAtRest /\ IngestAtRest
    /\ settings \in Environments
    /\ service = "starting"
    /\ probe \in ProbeCalls

ScoringNext ==
    \/ \E connected \in BOOLEAN : Lifespan(connected)
    \/ LevelProbe
    \/ ScoreProbe

\* the service from startup, its scoring functions called directly
SpecScoring == ScoringInit /\ [][ScoringNext]_vars

\* GET /stats served while computations commit
PrioStatsNext ==
    \/ \E p \in Procs, s \in SegmentIds, d \in DefectLists : SeqSelect(p, s, d)
    \/ \E p \in Procs : Commit(p)
    \/ \E p \in Procs : Refresh(p)
    \/ StatsStart
    \/ StatsExecute

SpecPrioStats == PrioSpecInit /\ [][PrioStatsNext]_vars

\* GET /api/v1/priority/list: min_priority Query(None, ge=0, le=100),
\* priority_level Query(None, regex), limit Query(100, ge=1, le=500)
ValidPriorityListRequest(min_priority, priority_level, limit) ==
    /\ min_priority # None => min_priority[1] >= 0 /\ min_priority[1] <= 10000
    /\ priority_level # NoText => priority_level \in {"LOW", "MEDIUM", "HIGH", "CRITICAL"}
    /\ limit >= 1 /\ limit <= 500

\* (variant: the rows come by ascending score)
get_priority_listAscending(table, min_priority, priority_level, limit) ==
    LET passing == {i \in 1..Len(table) :
                       /\ min_priority # None =>
                              table[i].total_priority_score >= min_priority[1]
                       /\ priority_level # NoText =>
                              table[i].priority_level = priority_level}
        n == Min(limit, Cardinality(passing))
        orders == {o \in [1..n -> passing] :
                      /\ \A j, k \in 1..n : j # k => o[j] # o[k]
                      /\ \A j, k \in 1..n :
                             j < k => table[o[j]].total_priority_score
                                      <= table[o[k]].total_priority_score
                      /\ \A i \in passing \ {o[k] : k \in 1..n} : \A k \in 1..n :
                             table[o[k]].total_priority_score
                                 <= table[i].total_priority_score}
    IN  {[k \in 1..n |-> table[o[k]]] : o \in orders}

\* PriorityService.get_priority_list (lines 392-425): the lists the query
\* may return: the rows passing the filters given, by descending
\* total_priority_score, the first limit of them, rows of equal score in
\* either order
get_priority_list(table, min_priority, priority_level, limit) ==
    LET passing == {i \in 1..Len(table) :
                       /\ min_priority # None =>
                              table[i].total_priority_score >= min_priority[1]
                       /\ priority_level # NoText =>
                              table[i].priority_level = priority_level}
        n == Min(limit, Cardinality(passing))
        orders == {o \in [1..n -> passing] :
                      /\ \A j, k \in 1..n : j # k => o[j] # o[k]
                      /\ \A j, k \in 1..n :
                             j < k => table[o[j]].total_priority_score
                                      >= table[o[k]].total_priority_score
                      /\ \A i \in passing \ {o[k] : k \in 1..n} : \A k \in 1..n :
                             table[o[k]].total_priority_score
                                 >= table[i].total_priority_score}
    IN  {[k \in 1..n |-> table[o[k]]] : o \in orders}

\* the entry the route builds of a row (routes lines 120-133)
SegmentSummary(seg) ==
    [id |-> seg.id,
     segment_id |-> seg.segment_id,
     priority_score |-> seg.total_priority_score,
     priority_level |-> seg.priority_level,
     defect_count |-> seg.defect_count,
     avg_severity |-> seg.avg_severity,
     road_name |-> seg.road_name,
     road_type |-> seg.road_type,
     estimated_cost |-> seg.estimated_cost,
     estimated_duration_days |-> seg.estimated_duration_days]

\* the list requests to come: no filter, each filter, both, values the route
\* refuses; scores in hundredths
PriorityListCalls ==
    {[op |-> "get_priority_list", args |-> <<f[1], f[2], limit>>, value |-> <<>>] :
        f \in {<<None, NoText>>, <<Some(5450), NoText>>, <<None, "MEDIUM">>,
                <<Some(5000), "HIGH">>, <<Some(6400), "MEDIUM">>,
                <<Some(10001), NoText>>, <<None, "medium">>},
        limit \in {1, 500}}
    \cup
    {[op |-> "get_priority_list", args |-> <<None, NoText, limit>>, value |-> <<>>] :
        limit \in {0, 501}}

\* GET /api/v1/priority/list (routes lines 94-135)
PriorityListRoute ==
    /\ service = "ready"
    /\ probe.op = "get_priority_list" /\ probe.value = <<>>
    /\ LET min_priority == probe.args[1]
           priority_level == probe.args[2]
           limit == probe.args[3]
       IN  IF ~ValidPriorityListRequest(min_priority, priority_level, limit)
           THEN probe' = [probe EXCEPT !.value =
                             <<[status |-> 422, count |-> 0, segments |-> <<>>]>>]
           ELSE \E segments \in get_priority_list(priority_scores, min_priority,
                                                  priority_level, limit) :
                    probe' = [probe EXCEPT !.value =
                                 <<[status |-> 200, count |-> Len(segments),
                                    segments |-> [k \in 1..Len(segments) |->
                                                     SegmentSummary(segments[k])]]>>]
    /\ UNCHANGED <<settings, service, prio_state, now, stats_pc, stats, geo_vars,
                   ingest_vars>>

\* the defect lists sent while lists are asked for
ListedDefectLists ==
    { ScenarioD,
      << Defect(10, 365, "Ring Rd", "motorway", 1000) >>,
      << Defect(10, 365, NoText, "residential", 1000) >> }

PrioListInit ==
    /\ PrioInit /\ GeoAtRest /\ IngestAtRest
    /\ settings = DefaultSettings
    /\ service = "ready"
    /\ probe \in PriorityListCalls

PrioListNext ==
    \/ \E s \in SegmentIds, d \in ListedDefectLists : SeqSelect(1, s, d)
    \/ \E p \in Procs : Commit(p)
    \/ \E p \in Procs : Refresh(p)
    \/ PriorityListRoute

\* computations one at a time, and one list request
SpecPrioList == PrioListInit /\ [][PrioListNext]_vars

\* the background task of one upload, then detect_frames called again
IngestSpecInit == PrioInit /\ GeoAtRest /\ Served /\ IngestInit

IngestNext ==
    \/ \E video_id \in VideoIds \cup {2}, db \in BOOLEAN : ProcessStart(video_id, db)
    \/ \E probed, db, handler_db \in BOOLEAN : GetVideoInfo(probed, db, handler_db)
    \/ \E opened, stored, db, handler_db \in BOOLEAN :
           ExtractFrames(opened, stored, db, handler_db)
    \/ \E outcomes \in OutcomesOf(frames), commits \in 0..1, handler_db \in BOOLEAN :
           DetectFramesStage(outcomes, commits, handler_db)
    \/ \E annotated, handler_db \in BOOLEAN : CreateAnnotatedVideo(annotated, handler_db)
    \/ \E db, handler_db \in BOOLEAN : ProcessComplete(db, handler_db)
    \/ \E outcomes \in OutcomesOf(frames), commits \in 0..1 : DetectFrames(outcomes, commits)

SpecIngest == IngestSpecInit /\ [][IngestNext]_vars

\* the functions of the ingestion service called directly
DirectInit ==
    /\ PrioInit /\ GeoAtRest /\ Served
    /\ video = UploadedVideo
    /\ frames = <<>>
    /\ run = NoRun
    /\ detection_run = NoDetectionRun
    /\ direct \in DirectCalls

DirectNext ==
    \/ DetectDefects
    \/ DetectFrameBatch
    \/ ExtractFramesTwice

SpecIngestDirect == DirectInit /\ [][DirectNext]_vars

\* ------------------------------------------------------------------ claims

\* C1: concurrent computeSegmentPriority calls for one segment_id, interleaved
\* between their existence check and their commit, leave (once none of them is
\* still between check and commit) exactly one PriorityScore for the segment,
\* holding all fields of exactly one of the committed computations.
C1_RaceLeavesOneWholeRecord ==
    \A s \in raced :
        (\A q \in Procs : ~(pc[q] = "selected" /\ call[q].segment_id = s)) =>
            LET rows == RowsOfSegment(priority_scores, s)
            IN  /\ Cardinality(rows) = 1
                /\ \A i \in rows :
                     \E c \in committed :
                        /\ c.segment_id = s
                        /\ \A col \in InsertedColumns :
                              priority_scores[i][col] = PriorityValues(c.defects)[col]

\* C2: after any sequence of computeSegmentPriority calls executed one at a
\* time, the store holds exactly one PriorityScore per segment computed at
\* least once, none for the others, and the record keeps the id given by the
\* first computation.
C2_OneRecordPerSegment ==
    \A s \in SegmentIds :
        LET rows == RowsOfSegment(priority_scores, s)
        IN  IF last_input[s] = <<>>
            THEN rows = {}
            ELSE /\ Cardinality(rows) = 1
                 /\ \A i \in rows : priority_scores[i].id = first_id[s]

\* C2 witness: both segments computed, one of them recomputed in place
C2_Witness ==
    /\ \A s \in SegmentIds : last_input[s] # <<>>
    /\ \E i \in 1..Len(priority_scores) :
          /\ priority_scores[i].updated_at > priority_scores[i].created_at
          /\ priority_scores[i].id = first_id[priority_scores[i].segment_id]

\* C3: after a recomputation every stored field derived from the input,
\* road_name and road_type included, equals what a first-time computation of
\* the same defect list would store.
C3_RecomputationOverwritesAll ==
    \A s \in SegmentIds :
        last_input[s] # <<>> =>
            \A i \in RowsOfSegment(priority_scores, s) :
                \A col \in InsertedColumns :
                    priority_scores[i][col] = PriorityValues(last_input[s])[col]

\* the distance of a stored GPS point to a road of the network, in metres
DistanceTo(d, id) == Abs(d.gps_location.longitude - road_segments[id])

GeoRows == {georeferenced_defects[i] : i \in 1..Len(georeferenced_defects)}

\* C4: a persisted defect is matched iff at least one segment lies within the
\* threshold of its point; the chosen segment's distance is the minimum over
\* all segments and at most the threshold; and a call that found no segment
\* ends normally with the unmatched result and its record.
C4_MatchIffWithinThreshold ==
    /\ \A d \in GeoRows :
          /\ d.is_matched <=>
                \E id \in DOMAIN road_segments : DistanceTo(d, id) <= distance_threshold
          /\ d.is_matched =>
                /\ d.segment_id[1] \in DOMAIN road_segments
                /\ d.distance_to_road[1] = DistanceTo(d, d.segment_id[1])
                /\ d.distance_to_road[1] <= distance_threshold
                /\ \A id \in DOMAIN road_segments : d.distance_to_road[1] <= DistanceTo(d, id)
    /\ geo_last.status = "ok" =>
          /\ geo_last.persisted
          /\ geo_last.response # None
          /\ LET d == georeferenced_defects[Len(georeferenced_defects)]
             IN  /\ geo_last.response[1].georef_id = d.id
                 /\ geo_last.response[1].matched = d.is_matched

\* C4 witness: a network with roads at two distances; one point matched to the
\* nearer road although the farther is within the threshold too, and the last
\* call, with roads present but none within the threshold, ended unmatched
C4_Witness ==
    /\ Len(georeferenced_defects) = 2
    /\ \E d \in GeoRows :
          /\ d.is_matched
          /\ \E id \in DOMAIN road_segments :
                /\ DistanceTo(d, id) <= distance_threshold
                /\ DistanceTo(d, id) > d.distance_to_road[1]
    /\ LET d == georeferenced_defects[2]
       IN  /\ ~d.is_matched
           /\ DOMAIN road_segments # {}
           /\ geo_last.status = "ok"
           /\ ~geo_last.response[1].matched

\* C5: two georeferenceDefect calls with the identical point, threshold and
\* road network are matched to the identical segment id, also when several
\* segments are exactly equidistant.
C5_MatchDeterministic ==
    \A d1, d2 \in GeoRows :
        d1.gps_location = d2.gps_location => d1.segment_id = d2.segment_id

\* C6: every persisted GeoreferencedDefect has is_matched true iff segment_id
\* and the matched point are both non-null, and an unmatched record has both
\* null.
C6_MatchedIffSegmentAndPoint ==
    \A d \in GeoRows :
        /\ d.is_matched <=> (d.segment_id # None /\ d.matched_location # None)
        /\ ~d.is_matched => (d.segment_id = None /\ d.matched_location = None)

\* C6 witness: a matched and an unmatched record are stored
C6_Witness ==
    /\ \E d \in GeoRows : d.is_matched /\ d.segment_id # None /\ d.matched_location # None
    /\ \E d \in GeoRows : ~d.is_matched

\* C7: needs_review is true on every unmatched record and equals
\* distance_to_road > 0.6 * threshold on every matched one; at threshold 50 a
\* match at 45 m is flagged and one at 3 m or at exactly 30 m is not.
C7_NeedsReviewRule ==
    \A d \in GeoRows :
        /\ ~d.is_matched => d.needs_review
        /\ d.is_matched =>
              /\ d.needs_review <=> (10 * d.distance_to_road[1] > 6 * distance_threshold)
              /\ (distance_threshold = 50 /\ d.distance_to_road[1] = 45) => d.needs_review
              /\ (distance_threshold = 50 /\ d.distance_to_road[1] \in {3, 30}) => ~d.needs_review

\* C7 witness: threshold 50, a match at exactly 30 m not flagged and a match at
\* 45 m flagged
C7_Witness ==
    /\ distance_threshold = 50
    /\ \E d \in GeoRows : d.is_matched /\ d.distance_to_road[1] = 30 /\ ~d.needs_review
    /\ \E d \in GeoRows : d.is_matched /\ d.distance_to_road[1] = 45 /\ d.needs_review

\* C8: the confidence of a matched record is the step function of its
\* distance (<= 5: 1.0, <= 15: 0.9, <= 30: 0.7, <= 50: 0.5, else 0.3, in
\* tenths here), lies in [0, 1] and never increases with the distance.
C8_ConfidenceSteps ==
    /\ \A d \in GeoRows :
          d.is_matched =>
              LET dist == d.distance_to_road[1]
                  conf == d.confidence[1]
              IN  /\ dist <= 5 => conf = 10
                  /\ (dist > 5 /\ dist <= 15) => conf = 9
                  /\ (dist > 15 /\ dist <= 30) => conf = 7
                  /\ (dist > 30 /\ dist <= 50) => conf = 5
                  /\ dist > 50 => conf = 3
                  /\ conf >= 0 /\ conf <= 10
    /\ \A d1, d2 \in GeoRows :
          (d1.is_matched /\ d2.is_matched /\ d1.distance_to_road[1] <= d2.distance_to_road[1])
              => d1.confidence[1] >= d2.confidence[1]

\* C8 witness: a match on the 5 m breakpoint with confidence 1.0 and a match
\* beyond 50 m with confidence 0.3
C8_Witness ==
    /\ \E d \in GeoRows : d.is_matched /\ d.distance_to_road[1] = 5 /\ d.confidence[1] = 10
    /\ \E d \in GeoRows : d.is_matched /\ d.distance_to_road[1] > 50 /\ d.confidence[1] = 3

\* C9: a batch the handler has finished with, normally or by a failing item,
\* reports one outcome per input item: a failure on one item neither aborts
\* the batch nor drops the outcomes of the others.
C9_BatchReportsEveryItem ==
    batch_pc \in {"done", "failed"} => Len(batch_results) = Len(batch_items)

\* C10: a georeferenceDefect call with a latitude outside [-90, 90] or a
\* longitude outside [-180, 180] ends with a validation error, without the
\* spatial query and without writing a record; no stored record carries such
\* a point.
C10_OutOfRangeFailsFast ==
    /\ geo_last.out_of_range =>
          /\ geo_last.status = "ValidationError"
          /\ ~geo_last.queried
          /\ ~geo_last.persisted
    /\ \A d \in GeoRows :
          /\ d.gps_location.latitude >= 0 - 90 /\ d.gps_location.latitude <= 90
          /\ d.gps_location.longitude >= 0 - 180 /\ d.gps_location.longitude <= 180

\* C10 witness: an out-of-range call was rejected while a record of an earlier
\* call is stored
C10_Witness ==
    /\ geo_last.out_of_range
    /\ geo_last.status = "ValidationError"
    /\ Len(georeferenced_defects) > 0

\* C11: a georeferenceDefect call that ends in a store failure, whichever
\* access failed (the spatial query, the commit, the refresh after the commit),
\* has left no record of that call in the store.
C11_FailedCallPersistsNothing ==
    geo_last.status = "StoreError" => ~geo_last.persisted

\* the columns the idempotence of a recomputation is about
C12Columns ==
    {"severity_score", "traffic_score", "density_score", "age_score",
     "accessibility_score", "total_priority_score", "priority_level",
     "estimated_cost", "estimated_duration_days"}

\* C12: two calls of computeSegmentPriority in a row with the same segment id
\* and the same defect list return the same five component scores, total
\* score, level, cost and duration, whatever record existed before the first,
\* and leave exactly one stored record for the segment.
C12_RecomputationIdempotent ==
    (/\ Len(done_log) = 2
     /\ done_log[1].outcome = "ok" /\ done_log[2].outcome = "ok"
     /\ done_log[1].segment_id = done_log[2].segment_id
     /\ done_log[1].defects = done_log[2].defects)
    => /\ \A c \in C12Columns : done_log[1].result[1][c] = done_log[2].result[1][c]
       /\ Cardinality(RowsOfSegment(priority_scores, done_log[1].segment_id)) = 1

\* the first of the two calls overwrote a record computed from other defects
C12_Witness ==
    /\ Len(done_log) = 2
    /\ done_log[1].outcome = "ok" /\ done_log[2].outcome = "ok"
    /\ done_log[1].segment_id = done_log[2].segment_id
    /\ done_log[1].defects = done_log[2].defects
    /\ done_log[2].result[1].created_at < done_log[2].result[1].updated_at
    /\ done_log[2].result[1].updated_at < done_log[1].result[1].updated_at
    /\ Cardinality(committed) > 1

\* C13: the statistics getStatistics returns form one consistent snapshot
\* although computeSegmentPriority calls commit meanwhile; in particular the
\* total count it reports is the sum of the four level counts it reports.
C13_StatisticsOneSnapshot ==
    stats_pc = "done" =>
        stats["total_segments"] =
            stats["critical"] + stats["high"] + stats["medium"] + stats["low"]

\* C14: the service serves only under settings whose five weights sum to 1.0
\* and whose CRITICAL threshold is above the HIGH threshold; startup rejects
\* any other configuration.
C14_StartupValidatesSettings ==
    service = "ready" =>
        /\ settings.WEIGHT_SEVERITY + settings.WEIGHT_TRAFFIC + settings.WEIGHT_DENSITY
           + settings.WEIGHT_AGE + settings.WEIGHT_ACCESSIBILITY = 100
        /\ settings.CRITICAL_PRIORITY_THRESHOLD > settings.HIGH_PRIORITY_THRESHOLD

\* C15: under every configured pair of thresholds getPriorityLevel maps a
\* score to exactly one of the four levels: CRITICAL from the CRITICAL
\* threshold on, else HIGH from the HIGH threshold on, else MEDIUM from 50 on,
\* else LOW; a score on a boundary belongs to the higher level.
C15_LevelPartition ==
    (probe.op = "get_priority_level" /\ probe.value # <<>>) =>
        LET s == probe.args[1]
            l == probe.value[1]
            critical == s >= settings.CRITICAL_PRIORITY_THRESHOLD
            high == s >= settings.HIGH_PRIORITY_THRESHOLD
            medium == s >= 50 * 100
        IN  /\ l \in {"CRITICAL", "HIGH", "MEDIUM", "LOW"}
            /\ (l = "CRITICAL") <=> critical
            /\ (l = "HIGH") <=> (~critical /\ high)
            /\ (l = "MEDIUM") <=> (~critical /\ ~high /\ medium)
            /\ (l = "LOW") <=> (~critical /\ ~high /\ ~medium)

\* a score on the HIGH boundary of settings other than the defaults
C15_Witness ==
    /\ probe.op = "get_priority_level"
    /\ probe.value = <<"HIGH">>
    /\ probe.args[1] = settings.HIGH_PRIORITY_THRESHOLD
    /\ settings.HIGH_PRIORITY_THRESHOLD # HIGH_PRIORITY_THRESHOLD

\* C16: for five components in 0..100 calculatePriorityScore returns a value
\* in [0, 100], and raising one component while the others stay does not
\* lower the value.
C16_ScoreBoundedMonotone ==
    (probe.op = "calculate_priority_score" /\ probe.value # <<>>) =>
        /\ \A k \in 1..2 : probe.value[k] >= 0 /\ probe.value[k] <= 100 * 100
        /\ (\A c \in 1..5 : probe.args[1][c] <= probe.args[2][c])
               => probe.value[1] <= probe.value[2]

\* a component was raised; the value rose to the cap of the range
C16_Witness ==
    /\ probe.op = "calculate_priority_score"
    /\ probe.value # <<>>
    /\ \E c \in 1..5 : probe.args[1][c] < probe.args[2][c]
    /\ probe.value[1] < probe.value[2]
    /\ probe.value[2] = 100 * 100

\* C17: every stored PriorityScore computed from a valid defect list has its
\* five component scores and its total in [0, 100], a cost of at least 0 and
\* a duration of at least one whole day; its density is the defect count per
\* kilometre times 20 with the segment length floored at 0.1 km, capped at
\* 100, and its age score is the mean age over 365 days, capped at 100.
C17_StoredValuesInRange ==
    \A i \in 1..Len(priority_scores) :
        LET r == priority_scores[i]
            d == last_input[r.segment_id]
            n == Len(d)
            metres == IF d[1].segment_length_meters < 100 THEN 100
                      ELSE d[1].segment_length_meters
            density == (n * 1000 * 20 * 100) \div metres
            age == (SumSeq([k \in 1..n |-> d[k].age_days]) * 100 * 100) \div (n * 365)
        IN  /\ \A c \in {"severity_score", "traffic_score", "density_score", "age_score",
                        "accessibility_score", "total_priority_score"} :
                   r[c] >= 0 /\ r[c] <= 100 * 100
            /\ r.estimated_cost >= 0
            /\ r.estimated_duration_days \in Nat /\ r.estimated_duration_days >= 1
            /\ r.density_score = (IF density > 100 * 100 THEN 100 * 100 ELSE density)
            /\ r.age_score = (IF age > 100 * 100 THEN 100 * 100 ELSE age)

\* one stored record of a segment shorter than 0.1 km, one of defects older
\* than a year on average with a density under the cap, one whose duration
\* was raised to a day
C17_Witness ==
    /\ \E i \in 1..Len(priority_scores) :
           /\ last_input[priority_scores[i].segment_id][1].segment_length_meters < 100
           /\ priority_scores[i].density_score = 100 * 100
    /\ \E i \in 1..Len(priority_scores) :
           LET d == last_input[priority_scores[i].segment_id]
           IN  /\ SumSeq([k \in 1..Len(d) |-> d[k].age_days]) > 365 * Len(d)
               /\ priority_scores[i].age_score = 100 * 100
               /\ priority_scores[i].density_score < 100 * 100
               /\ priority_scores[i].estimated_duration_days = 1
               /\ 4 * Len(d) * DurationMultiplier(d[1].road_type) < 80

\* C18: a computeSegmentPriority call with an empty defect list ends in a
\* validation error: it does not get past the validation, and the step in
\* which it ends creates no PriorityScore and changes none.
C18_EmptyListRejected ==
    [][/\ \A p \in Procs : pc'[p] # "idle" => call'[p].defects # <<>>
       /\ (done_log' # done_log /\ done_log'[1].defects = <<>>)
              => /\ done_log'[1].outcome = "ValueError"
                 /\ done_log'[1].result = <<>>
                 /\ priority_scores' = priority_scores]_vars

\* an empty list was rejected while the segment it names had a record
C18_Witness ==
    /\ done_log # <<>>
    /\ done_log[1].defects = <<>>
    /\ done_log[1].outcome = "ValueError"
    /\ RowsOfSegment(priority_scores, done_log[1].segment_id) # {}

\* C19: computeSegmentPriority on three residential defects of severities 8,
\* 6 and 7, age 0, on a 200 m segment stores severity 70, traffic 30, density
\* 100, age 0, accessibility 50, total 54.5, level MEDIUM and cost 2550.
C19_ScenarioD ==
    \A i \in 1..Len(priority_scores) :
        last_input[priority_scores[i].segment_id] = ScenarioD =>
            /\ priority_scores[i].severity_score = 7000
            /\ priority_scores[i].traffic_score = 3000
            /\ priority_scores[i].density_score = 10000
            /\ priority_scores[i].age_score = 0
            /\ priority_scores[i].accessibility_score = 5000
            /\ priority_scores[i].total_priority_score = 5450
            /\ priority_scores[i].priority_level = "MEDIUM"
            /\ priority_scores[i].estimated_cost = 255000

\* the scenario was computed afresh, and over a record of other defects
C19_Witness ==
    /\ \E i \in 1..Len(priority_scores) :
           /\ last_input[priority_scores[i].segment_id] = ScenarioD
           /\ priority_scores[i].created_at = priority_scores[i].updated_at
    /\ \E i \in 1..Len(priority_scores) :
           /\ last_input[priority_scores[i].segment_id] = ScenarioD
           /\ priority_scores[i].created_at < priority_scores[i].updated_at

\* C20: once a GeoreferencedDefect is persisted no georeferenceDefect,
\* batchGeoreference, nearbyDefects or segmentDefects step changes any of its
\* fields or removes it, and none of them writes to the road-segment store.
C20_PersistedRecordsImmutable ==
    [][/\ Len(georeferenced_defects') >= Len(georeferenced_defects)
       /\ \A i \in 1..Len(georeferenced_defects) :
              georeferenced_defects'[i] = georeferenced_defects[i]
       /\ road_segments' = road_segments]_vars

\* a record persisted first, a later one of another point, a batch that
\* returned and a query that found both records
C20_Witness ==
    /\ Len(georeferenced_defects) >= 2
    /\ georeferenced_defects[1].gps_location # georeferenced_defects[2].gps_location
    /\ batch_pc = "done" /\ batch_results # <<>>
    /\ Len(query_result.rows) >= 2

\* C26: every stored PriorityScore is consistent in itself: its level is the
\* level of its total, its total is the weighted score of its five stored
\* components, it counts at least one defect and its largest severity is not
\* under its mean severity.
C26_StoredRecordConsistent ==
    \A i \in 1..Len(priority_scores) :
        LET r == priority_scores[i]
        IN  /\ r.priority_level = get_priority_level(r.total_priority_score)
            /\ r.total_priority_score =
                   calculate_priority_score(r.severity_score, r.traffic_score,
                       r.density_score, r.age_score, r.accessibility_score)
            /\ r.defect_count >= 1
            /\ r.max_severity >= r.avg_severity

\* C29: under the default threshold of 50 m every matched record lies at most
\* 50 m from its road, so its confidence is 1.0, 0.9, 0.7 or 0.5 and never
\* 0.3; a matched record that needs no review lies at most 30 m away and has
\* a confidence of at least 0.7.
C29_DefaultThresholdBands ==
    distance_threshold = 50 =>
        \A i \in 1..Len(georeferenced_defects) :
            LET d == georeferenced_defects[i]
            IN  d.is_matched =>
                    /\ d.distance_to_road[1] <= 50
                    /\ d.confidence[1] \in {10, 9, 7, 5}
                    /\ ~d.needs_review =>
                           d.distance_to_road[1] <= 30 /\ d.confidence[1] >= 7

\* under the default threshold: a record matched at exactly 50 m, and one
\* matched at exactly 30 m that needs no review
C29_Witness ==
    /\ distance_threshold = 50
    /\ \E i \in 1..Len(georeferenced_defects) :
           /\ georeferenced_defects[i].is_matched
           /\ georeferenced_defects[i].distance_to_road = Some(50)
           /\ georeferenced_defects[i].confidence = Some(5)
    /\ \E i \in 1..Len(georeferenced_defects) :
           /\ georeferenced_defects[i].is_matched
           /\ georeferenced_defects[i].distance_to_road = Some(30)
           /\ ~georeferenced_defects[i].needs_review
           /\ georeferenced_defects[i].confidence = Some(7)

\* C28: batchGeoreference commits item by item: a step of its loop leaves
\* the records persisted before it as they are; when the item fails no record
\* of that item (nor of a later one) is added, and when it succeeds exactly
\* one record, that of the item, is added.
C28_BatchCommitsItemByItem ==
    [][batch_pc = "running" =>
          /\ \A i \in 1..Len(georeferenced_defects) :
                 georeferenced_defects'[i] = georeferenced_defects[i]
          /\ batch_pc' = "failed" => georeferenced_defects' = georeferenced_defects
          /\ batch_results' # batch_results =>
                 /\ Len(georeferenced_defects') = Len(georeferenced_defects) + 1
                 /\ georeferenced_defects'[Len(georeferenced_defects')].detection_id
                        = batch_items[Len(batch_results')].detection_id]_vars

\* C23: detect_defects never raises: on an error status (400, 500) or a
\* timeout it returns a result with success false and an error text (the
\* timeout named in the timeout case), on a 200 answer a result with success
\* true and the detections.
C23_DetectDefectsNeverRaises ==
    direct.op = "detect_defects" /\ direct.value # <<>> =>
        LET answer == direct.args[1]
            r == direct.value[1]
        IN  /\ r.kind = "returned"
            /\ "success" \in DOMAIN r.value
            /\ answer.status = "200" =>
                   r.value.success /\ r.value.detections = answer.detections
            /\ answer.status # "200" =>
                   /\ ~r.value.success
                   /\ "error" \in DOMAIN r.value
                   /\ answer.status = "timeout" => r.value.error = "ReadTimeout"

\* C24: detect_frame_batch returns one result per input frame, in input
\* order, each with the frame_id and a success flag; a frame whose detection
\* failed has success false, and the frames after it have their results.
C24_OneResultPerFrame ==
    direct.op = "detect_frame_batch" /\ direct.value # <<>> =>
        LET frames_data == direct.args[1]
            answers == direct.args[2]
            results == direct.value[1]
        IN  /\ Len(results) = Len(frames_data)
            /\ \A k \in 1..Len(results) :
                   /\ results[k].frame_id = frames_data[k]
                   /\ "success" \in DOMAIN results[k]
                   /\ results[k].success = (answers[k].status = "200")

C24_Witness ==
    /\ direct.op = "detect_frame_batch" /\ direct.value # <<>>
    /\ Len(direct.args[1]) = 3
    /\ direct.args[2][1].status = "500"
    /\ direct.args[2][2].status = "timeout"
    /\ ~direct.value[1][1].success
    /\ direct.value[1][3].success

\* C25: for one video and two extraction rates 1 <= f1 <= f2, extract_frames
\* returns for both rates, at least as many frames at f2 as at f1, numbered
\* 0, 1, 2, ... in order, also when a rate is above the video's frame rate.
C25_ExtractionMonotone ==
    direct.op = "extract_frames" /\ direct.value # <<>> =>
        LET at_f1 == direct.value[1]
            at_f2 == direct.value[2]
        IN  /\ at_f1.kind = "returned" /\ at_f2.kind = "returned"
            /\ Len(at_f2.value) >= Len(at_f1.value)
            /\ \A k \in 1..Len(at_f1.value) : at_f1.value[k].frame_number = k - 1
            /\ \A k \in 1..Len(at_f2.value) : at_f2.value[k].frame_number = k - 1

\* C27: a process_video run on an existing video sets PROCESSING first and
\* never ends with the video PENDING or PROCESSING: it ends COMPLETED, with
\* processing_completed_at, only after extraction, detection and annotation
\* finished in that order, and FAILED with error_message when a stage raised.
C27_RunEndsCompletedOrFailed ==
    /\ run.pc \in {"get_video_info", "extract_frames", "detect_frames",
                    "create_annotated_video", "complete"} =>
           video.status = "processing"
    /\ run.pc \in {"returned", "raised"} /\ run.object.status # "pending" =>
           /\ video.status \in {"completed", "failed"}
           /\ video.status = "completed" =>
                  /\ run.pc = "returned"
                  /\ video.processing_completed_at # NoText
                  /\ run.stages = <<"get_video_info", "extract_frames", "detect_frames",
                                     "create_annotated_video">>
           /\ video.status = "failed" =>
                  run.pc = "raised" /\ video.error_message # NoText

\* C30: a detect_frames run marks a frame completed only when the detection
\* client reported success for it, so a frame whose download or detection
\* failed stays incomplete; the run selects exactly the frames incomplete
\* before it, so those are selected again and completed ones never are.
C30_CompletedOnlyOnSuccess ==
    [][Len(frames') = Len(frames) /\ (detection_run' # detection_run \/ frames' # frames) =>
          LET outcomes == detection_run'.outcomes
              Success(id) == outcomes[id].download /\ outcomes[id].answer.status = "200"
              pending == PendingFrames(frames)
          IN  /\ \A i \in 1..Len(frames) :
                     /\ frames[i].detection_completed => frames'[i] = frames[i]
                     /\ ~frames[i].detection_completed /\ frames'[i].detection_completed =>
                            Success(frames[i].id)
              /\ detection_run'.selected = [j \in 1..Len(pending) |-> pending[j].id]]_vars

C30_Witness ==
    \E i, j \in 1..Len(frames) :
        /\ frames[i].detection_completed
        /\ ~frames[j].detection_completed
        /\ detection_run.selected = <<frames[j].id>>
        /\ ~detection_run.outcomes[frames[j].id].download

\* C22: a nearby search returns exactly the persisted records, matched or
\* not, whose original GPS point lies within the radius of the centre, each
\* once, with that point as its location, by non-decreasing distance.
C22_NearbyByOriginalPoint ==
    [][query_result'.op = "nearby" /\ query_result'.status = "ok"
       /\ query_result' # query_result =>
          LET center == query_result'.request[1]
              radius_meters == query_result'.request[2]
              rows == query_result'.rows
              table == georeferenced_defects
              inside == {i \in 1..Len(table) :
                            SquareDistance(table[i].gps_location, center)
                                <= radius_meters * radius_meters}
          IN  /\ Len(rows) = Cardinality(inside)
              /\ {rows[k].georef_id : k \in 1..Len(rows)} = {table[i].id : i \in inside}
              /\ \A k \in 1..Len(rows) :
                     \E i \in inside : /\ table[i].id = rows[k].georef_id
                                        /\ table[i].gps_location = rows[k].location
              /\ \A j, k \in 1..Len(rows) :
                     j < k => rows[j].distance_meters <= rows[k].distance_meters]_vars

C22_Witness ==
    /\ query_result.op = "nearby" /\ query_result.status = "ok"
    /\ Len(query_result.rows) = 2
    /\ query_result.rows[1].distance_meters < query_result.rows[2].distance_meters
    /\ \E i, j \in 1..Len(georeferenced_defects) :
           /\ georeferenced_defects[i].id = query_result.rows[1].georef_id
           /\ georeferenced_defects[i].is_matched
           /\ georeferenced_defects[j].id = query_result.rows[2].georef_id
           /\ ~georeferenced_defects[j].is_matched

\* C21: the list holds only records with total score >= minPriority (when
\* given) and level priorityLevel (when given), by non-increasing total
\* score, at most limit of them, and no record left out passes the filters
\* with a higher score, or at all when the list is shorter than limit.
C21_PriorityListFilteredOrdered ==
    [][probe'.op = "get_priority_list" /\ probe'.value # probe.value
       /\ probe'.value[1].status = 200 =>
          LET min_priority == probe'.args[1]
              priority_level == probe'.args[2]
              limit == probe'.args[3]
              segments == probe'.value[1].segments
              table == priority_scores
              Passes(r) == /\ min_priority # None =>
                                  r.total_priority_score >= min_priority[1]
                           /\ priority_level # NoText => r.priority_level = priority_level
              listed == {segments[k].id : k \in 1..Len(segments)}
          IN  /\ Len(segments) <= limit
              /\ Cardinality(listed) = Len(segments)
              /\ \A k \in 1..Len(segments) :
                     \E i \in 1..Len(table) :
                         /\ table[i].id = segments[k].id
                         /\ table[i].total_priority_score = segments[k].priority_score
                         /\ table[i].priority_level = segments[k].priority_level
                         /\ Passes(table[i])
              /\ \A j, k \in 1..Len(segments) :
                     j < k => segments[j].priority_score >= segments[k].priority_score
              /\ \A i \in 1..Len(table) :
                     Passes(table[i]) /\ table[i].id \notin listed =>
                         /\ Len(segments) = limit
                         /\ \A k \in 1..Len(segments) :
                                segments[k].priority_score
                                    >= table[i].total_priority_score]_vars

C21_Witness ==
    /\ probe.op = "get_priority_list" /\ probe.value # <<>>
    /\ probe.args = <<None, "MEDIUM", 1>>
    /\ probe.value[1].status = 200
    /\ Len(probe.value[1].segments) = 1
    /\ \E i \in 1..Len(priority_scores) :
           /\ priority_scores[i].id # probe.value[1].segments[1].id
           /\ priority_scores[i].priority_level = "MEDIUM"
           /\ priority_scores[i].total_priority_score
                  < probe.value[1].segments[1].priority_score

====
